---- MODULE Spec2Model ----
(***************************************************************************)
(* A model of the tabulate layout and rendering engine (src/tabulate.go,   *)
(* src/data.go, src/format.go).  Strings are sequences of runes, a rune is *)
(* a one-element token; the output sink is the sequence of runes written.  *)
(***************************************************************************)
EXTENDS Integers, Sequences, FiniteSets, TLC

VARIABLES tabs, hcols, harr, written, op, touched, sink, ret, arrays, threads

vars == <<tabs, hcols, harr, written, op, touched, sink, ret, arrays, threads>>

----------------------------------------------------------------------------
(* Runes and strings *)

NL == "\n"
CR == "\r"
QUOTE == "\""
SP == " "

RECURSIVE Rep(_, _)
\* for i := 0; i < n; i++ { fmt.Fprint(o, s) }  -- nothing when n <= 0
Rep(n, s) == IF n <= 0 THEN <<>> ELSE s \o Rep(n - 1, s)

RECURSIVE Concat(_)
Concat(ss) == IF ss = <<>> THEN <<>> ELSE Head(ss) \o Concat(Tail(ss))

Max2(a, b) == IF a > b THEN a ELSE b

\* Go integer division truncates toward zero
GoDiv(a, b) == IF a >= 0 THEN a \div b ELSE -((-a) \div b)

RECURSIVE TrimRightNL(_)
\* strings.TrimRight(str, "\n")
TrimRightNL(s) ==
    IF s # <<>> /\ s[Len(s)] = NL THEN TrimRightNL(SubSeq(s, 1, Len(s) - 1)) ELSE s

\* strings.IndexRune(s, x), 1-based; 0 when x is not in s
IndexRune(s, x) ==
    LET at == {i \in 1..Len(s) : s[i] = x}
    IN  IF at = {} THEN 0 ELSE CHOOSE k \in at : \A j \in at : k <= j

RECURSIVE Split(_, _)
\* strings.Split(s, sep) for a one-rune sep: always at least one element
Split(s, sep) ==
    LET i == IndexRune(s, sep)
    IN  IF i = 0 THEN <<s>>
        ELSE <<SubSeq(s, 1, i - 1)>> \o Split(SubSeq(s, i + 1, Len(s)), sep)

SplitNL(s) == Split(s, NL)

RECURSIVE JoinNL(_)
\* strings.Join(lines, "\n")
JoinNL(ls) ==
    IF ls = <<>> THEN <<>>
    ELSE IF Len(ls) = 1 THEN ls[1]
    ELSE ls[1] \o <<NL>> \o JoinNL(Tail(ls))

----------------------------------------------------------------------------
(* Data: the Lines variant; NilData is the nil interface value *)

NilData == [kind |-> "nil", MaxWidth |-> 0, Lines |-> <<>>]

RECURSIVE MaxLineWidth(_)
\* the loop of NewLinesData: max over len([]rune(line)), starting from 0
MaxLineWidth(lines) ==
    IF lines = <<>> THEN 0 ELSE Max2(Len(Head(lines)), MaxLineWidth(Tail(lines)))

NewLinesData(lines) ==
    [kind |-> "Lines", MaxWidth |-> MaxLineWidth(lines), Lines |-> lines]

NewLines(str) == NewLinesData(SplitNL(TrimRightNL(str)))

LinesWidth(d) == d.MaxWidth

LinesHeight(d) == Len(d.Lines)

\* row is 0-based; callers pass row >= 0
LinesContent(d, row) == IF row >= LinesHeight(d) THEN <<>> ELSE d.Lines[row + 1]

LinesString(d) == JoinNL(d.Lines)

----------------------------------------------------------------------------
(* Data: the Value variant, and the dispatch of the Data interface.  A      *)
(* Go value is its dynamic type and its value; a Tabulate used as Data is   *)
(* the pointer to it.                                                       *)

GoBool(b) == [type |-> "bool", v |-> b]
GoInt(n) == [type |-> "int", v |-> n]

Digit(d) == <<"0", "1", "2", "3", "4", "5", "6", "7", "8", "9">>[d + 1]

RECURSIVE Itoa(_)
\* the decimal digits of n >= 0
Itoa(n) == IF n < 10 THEN <<Digit(n)>> ELSE Itoa(n \div 10) \o <<Digit(n % 10)>>

\* fmt.Sprintf("%v", v) for a bool or an int
SprintfV(v) ==
    IF v.type = "bool"
    THEN (IF v.v THEN <<"t", "r", "u", "e">> ELSE <<"f", "a", "l", "s", "e">>)
    ELSE (IF v.v < 0 THEN <<"-">> \o Itoa(-v.v) ELSE Itoa(v.v))

NewValue(v) == [kind |-> "Value", string |-> SprintfV(v), value |-> v]

ValueWidth(d) == Len(d.string)

ValueHeight(d) == 1

ValueContent(d, row) == IF row > 0 THEN <<>> ELSE d.string

ValueString(d) == d.string

\* a *Tabulate as Data
TabData(id) == [kind |-> "Tabulate", id |-> id]

\* d.Width(), d.Height(), d.Content(row), d.String() of a Lines or a Value
DataWidth(d) == IF d.kind = "Value" THEN ValueWidth(d) ELSE LinesWidth(d)

DataHeight(d) == IF d.kind = "Value" THEN ValueHeight(d) ELSE LinesHeight(d)

DataContent(d, row) ==
    IF d.kind = "Value" THEN ValueContent(d, row) ELSE LinesContent(d, row)

DataString(d) == IF d.kind = "Value" THEN ValueString(d) ELSE LinesString(d)

----------------------------------------------------------------------------
(* Data: the Array variant.  An Array is an object on the heap arrays; a    *)
(* Data value that is an Array is the pointer ArrData(id).  The model nests *)
(* an Array only into an Array made before it, so that no Array holds       *)
(* itself.                                                                  *)

ArrData(id) == [kind |-> "Array", id |-> id]

\* new(Array)
NewArray == [maxWidth |-> 0, height |-> 0, content |-> <<>>]

\* arr.Width(), arr.Height(): the fields
ArrayWidth(arrs, id) == arrs[id].maxWidth

ArrayHeight(arrs, id) == arrs[id].height

\* data.Width(), data.Height() of a child, an *Array included
HeapWidth(arrs, d) == IF d.kind = "Array" THEN ArrayWidth(arrs, d.id) ELSE DataWidth(d)

HeapHeight(arrs, d) == IF d.kind = "Array" THEN ArrayHeight(arrs, d.id) ELSE DataHeight(d)

\* arr.Append(data), data read at the call: the new fields of arr
ArrayAppend(arrs, id, d) ==
    [maxWidth |-> IF HeapWidth(arrs, d) > arrs[id].maxWidth
                  THEN HeapWidth(arrs, d) ELSE arrs[id].maxWidth,
     height   |-> arrs[id].height + HeapHeight(arrs, d),
     content  |-> Append(arrs[id].content, d)]

RECURSIVE ArrayContentLoop(_, _, _, _)
\* the loop of arr.Content(row) from child k on, with c.Content(row) of a
\* child that is an Array unfolded
ArrayContentLoop(arrs, id, k, row) ==
    IF k > Len(arrs[id].content) THEN <<>>
    ELSE LET c == arrs[id].content[k]
             h == HeapHeight(arrs, c)
         IN  IF h > row
             THEN IF c.kind = "Array" THEN ArrayContentLoop(arrs, c.id, 1, row)
                  ELSE DataContent(c, row)
             ELSE ArrayContentLoop(arrs, id, k + 1, row - h)

\* arr.Content(row)
ArrayContent(arrs, id, row) == ArrayContentLoop(arrs, id, 1, row)

----------------------------------------------------------------------------
(* Align, Format, Column *)

Aligns == {"TL", "TC", "TR", "ML", "MC", "MR", "BL", "BC", "BR", "None"}

Formats == {"FmtNone", "FmtBold", "FmtItalic"}

VT100(fmt) ==
    CASE fmt = "FmtBold"   -> <<"ESC", "[", "1", "m">>
      [] fmt = "FmtItalic" -> <<"ESC", "[", "3", "m">>
      [] OTHER             -> <<"ESC", "[", "m">>

\* the zero value &Column{}
BlankColumn == [Align |-> "TL", Data |-> NilData, Format |-> "FmtNone"]

ColumnWidth(col) == IF col.Data.kind = "nil" THEN 0 ELSE DataWidth(col.Data)

ColumnHeight(col) == IF col.Data.kind = "nil" THEN 0 ELSE DataHeight(col.Data)

ColumnContent(col, row) ==
    IF col.Data.kind = "nil" THEN <<>> ELSE DataContent(col.Data, row)

----------------------------------------------------------------------------
(* Styles and borders *)

NoBorder ==
    [HT |-> <<>>, HM |-> <<>>, HB |-> <<>>, VL |-> <<>>, VM |-> <<>>, VR |-> <<>>,
     TL |-> <<>>, TM |-> <<>>, TR |-> <<>>, ML |-> <<>>, MM |-> <<>>, MR |-> <<>>,
     BL |-> <<>>, BM |-> <<>>, BR |-> <<>>]

asciiBorder ==
    [HT |-> <<"-">>, HM |-> <<"-">>, HB |-> <<"-">>,
     VL |-> <<"|">>, VM |-> <<"|">>, VR |-> <<"|">>,
     TL |-> <<"+">>, TM |-> <<"+">>, TR |-> <<"+">>,
     ML |-> <<"+">>, MM |-> <<"+">>, MR |-> <<"+">>,
     BL |-> <<"+">>, BM |-> <<"+">>, BR |-> <<"+">>]

unicodeLight ==
    [HT |-> <<"u2500">>, HM |-> <<"u2500">>, HB |-> <<"u2500">>,
     VL |-> <<"u2502">>, VM |-> <<"u2502">>, VR |-> <<"u2502">>,
     TL |-> <<"u250C">>, TM |-> <<"u252C">>, TR |-> <<"u2510">>,
     ML |-> <<"u251C">>, MM |-> <<"u253C">>, MR |-> <<"u2524">>,
     BL |-> <<"u2514">>, BM |-> <<"u2534">>, BR |-> <<"u2518">>]

unicodeBold ==
    [HT |-> <<"u2501">>, HM |-> <<"u2501">>, HB |-> <<"u2501">>,
     VL |-> <<"u2503">>, VM |-> <<"u2503">>, VR |-> <<"u2503">>,
     TL |-> <<"u250F">>, TM |-> <<"u2533">>, TR |-> <<"u2513">>,
     ML |-> <<"u2523">>, MM |-> <<"u254B">>, MR |-> <<"u252B">>,
     BL |-> <<"u2517">>, BM |-> <<"u253B">>, BR |-> <<"u251B">>]

unicodeHeader ==
    [unicodeBold EXCEPT !.ML = <<"u2521">>, !.MM = <<"u2547">>, !.MR = <<"u2529">>]

\* var borders = map[Style]Borders{...}
borders(style) ==
    CASE style = "ASCII"        -> [Header |-> asciiBorder, Body |-> asciiBorder]
      [] style = "Unicode"      -> [Header |-> unicodeHeader, Body |-> unicodeLight]
      [] style = "UnicodeLight" -> [Header |-> unicodeLight, Body |-> unicodeLight]
      [] style = "UnicodeBold"  -> [Header |-> unicodeBold, Body |-> unicodeBold]
      [] style = "Colon"        ->
            [Header |-> [NoBorder EXCEPT !.VM = <<SP, ":", SP>>],
             Body   |-> [NoBorder EXCEPT !.VM = <<SP, ":", SP>>]]
      [] style = "Simple"       ->
            [Header |-> [NoBorder EXCEPT !.HM = <<"-">>, !.VM = <<SP, SP>>,
                                         !.MM = <<SP, SP>>],
             Body   |-> [NoBorder EXCEPT !.VM = <<SP, SP>>, !.MM = <<SP, SP>>]]
      [] style = "Github"       ->
            [Header |-> [NoBorder EXCEPT !.HM = <<"-">>, !.VL = <<"|">>,
                                         !.VM = <<"|">>, !.VR = <<"|">>,
                                         !.ML = <<"|">>, !.MM = <<"|">>,
                                         !.MR = <<"|">>],
             Body   |-> [NoBorder EXCEPT !.VL = <<"|">>, !.VM = <<"|">>,
                                         !.VR = <<"|">>]]
      [] style = "CSV"          ->
            [Header |-> [NoBorder EXCEPT !.VM = <<",">>, !.VR = <<CR>>],
             Body   |-> [NoBorder EXCEPT !.VM = <<",">>, !.VR = <<CR>>]]
      [] OTHER                  -> [Header |-> NoBorder, Body |-> NoBorder]

RECURSIVE DoubleQuotes(_)
\* the loop of escapeCSV: every '"' gets a second '"' in front of it
DoubleQuotes(s) ==
    IF s = <<>> THEN <<>>
    ELSE (IF Head(s) = QUOTE THEN <<QUOTE, QUOTE>> ELSE <<Head(s)>>)
         \o DoubleQuotes(Tail(s))

\* escapeCSV putting its quotes around the argument as it is
escapeCSVWrapOnly(val) ==
    IF IndexRune(val, QUOTE) = 0 /\ IndexRune(val, NL) = 0
    THEN val
    ELSE <<QUOTE>> \o val \o <<QUOTE>>

escapeCSV(val) ==
    IF IndexRune(val, QUOTE) = 0 /\ IndexRune(val, NL) = 0
    THEN val
    ELSE <<QUOTE>> \o DoubleQuotes(val) \o <<QUOTE>>

\* t.Escape: nil or escapeCSV
ApplyEscape(esc, content) == IF esc = "escapeCSV" THEN escapeCSV(content) ELSE content

----------------------------------------------------------------------------
(* Tabulate objects.  t.Headers is a Go slice of *Column: a window          *)
(* (arr, len, cap) on a backing array of harr, whose slots hold indices     *)
(* into the heap hcols of header columns.  Rows and their cells are never   *)
(* aliased by the API and are held by value.                                *)

TabIds == {1, 2}

NilSlice == [arr |-> 0, len |-> 0, cap |-> 0]

GridStyles ==
    {"Plain", "ASCII", "Unicode", "UnicodeLight", "UnicodeBold",
     "Colon", "Simple", "Github", "CSV"}

DefaultPadding == 2

\* New(style)
New(style) ==
    [live    |-> TRUE,
     Padding |-> IF style \in {"Colon", "Simple", "CSV", "JSON"} THEN 0
                 ELSE DefaultPadding,
     Borders |-> style,
     Escape  |-> IF style = "CSV" THEN "escapeCSV" ELSE "nil",
     Output  |-> IF style = "JSON" THEN "outputJSON" ELSE "nil",
     Headers |-> NilSlice,
     Rows    |-> <<>>,
     asData  |-> NilData]

\* a table pointer that has not been created yet
NoTab == [New("Plain") EXCEPT !.live = FALSE, !.Padding = 0]

\* the *Column values t.Headers[0 .. len-1]
HeadersOf(t, cols, arrs) ==
    [i \in 1..t.Headers.len |-> cols[arrs[t.Headers.arr][i]]]

RECURSIVE HeightLoop(_, _, _)
\* for _, col := range cols { if col.Data.Height() > max { max = col.Data.Height() } }
HeightLoop(cols, idx, max) ==
    IF idx > Len(cols) THEN max
    ELSE HeightLoop(cols, idx + 1,
                    IF LinesHeight(cols[idx].Data) > max
                    THEN LinesHeight(cols[idx].Data) ELSE max)

\* Row.Height() taking the height of the row's first cell only
RowHeightFirstCell(row) == IF row = <<>> THEN 0 ELSE LinesHeight(row[1].Data)

\* Row.Height()
RowHeight(row) == HeightLoop(row, 1, 0)

\* Print, lines 349-355: widths := make([]int, len(t.Headers)), raised by the headers
HeaderWidths(hdrs) ==
    [idx \in 1..Len(hdrs) |->
        IF DataWidth(hdrs[idx].Data) > 0 THEN DataWidth(hdrs[idx].Data) ELSE 0]

\* RaiseWidth without its comparison: the last row's cell sets the width
RaiseWidthOverwrite(ws, col, idx) ==
    [(IF idx > Len(ws) THEN Append(ws, 0) ELSE ws) EXCEPT ![idx] = ColumnWidth(col)]

\* Print, lines 358-363: one column of one row; idx is 1-based here
RaiseWidth(ws, col, idx) ==
    IF ColumnWidth(col) > (IF idx > Len(ws) THEN 0 ELSE ws[idx])
    THEN [(IF idx > Len(ws) THEN Append(ws, 0) ELSE ws) EXCEPT ![idx] = ColumnWidth(col)]
    ELSE (IF idx > Len(ws) THEN Append(ws, 0) ELSE ws)

RECURSIVE RowWidthsLoop(_, _, _)
RowWidthsLoop(ws, row, idx) ==
    IF idx > Len(row) THEN ws
    ELSE RowWidthsLoop(RaiseWidth(ws, row[idx], idx), row, idx + 1)

\* Print, lines 357-364: the inner loop over one row's columns
RowWidths(widths, row) == RowWidthsLoop(widths, row, 1)

RECURSIVE WidthsLoop(_, _, _)
WidthsLoop(ws, rows, r) ==
    IF r > Len(rows) THEN ws ELSE WidthsLoop(RowWidths(ws, rows[r]), rows, r + 1)

\* Print, lines 349-365
Widths(hdrs, rows) == WidthsLoop(HeaderWidths(hdrs), rows, 1)

\* Print, lines 382-387
HeaderHeight(hdrs) == HeightLoop(hdrs, 1, 0)

\* vLine with the odd blank line of a middle cell put on top
vLineMiddleUp(align, line, vspace) ==
    CASE align \in {"ML", "MC", "MR"} -> line - GoDiv(vspace + 1, 2)
      [] align \in {"BL", "BC", "BR"} -> line - vspace
      [] OTHER -> line

\* printColumn, lines 451-460: the line of col that block line `line` shows;
\* negative when it shows none
vLine(align, line, vspace) ==
    CASE align \in {"ML", "MC", "MR"} -> line - GoDiv(vspace, 2)
      [] align \in {"BL", "BC", "BR"} -> line - vspace
      [] OTHER -> line

\* hPad that keeps the padding of the style under None
hPadNoneKeepsBase(align, padding, pad) ==
    LET lPad == GoDiv(padding, 2)
        rPad == padding - lPad
        l    == GoDiv(pad, 2)
        r    == pad - l
    IN  CASE align = "None" -> [l |-> lPad, r |-> rPad]
          [] align \in {"TL", "ML", "BL"} -> [l |-> lPad, r |-> rPad + pad]
          [] align \in {"TC", "MC", "BC"} -> [l |-> lPad + l, r |-> rPad + r]
          [] OTHER -> [l |-> lPad + pad, r |-> rPad]

\* hPad with the odd space of a centred cell dropped (r := l)
hPadCentreEven(align, padding, pad) ==
    LET lPad == GoDiv(padding, 2)
        rPad == padding - lPad
        l    == GoDiv(pad, 2)
    IN  CASE align = "None" -> [l |-> 0, r |-> 0]
          [] align \in {"TL", "ML", "BL"} -> [l |-> lPad, r |-> rPad + pad]
          [] align \in {"TC", "MC", "BC"} -> [l |-> lPad + l, r |-> rPad + l]
          [] OTHER -> [l |-> lPad + pad, r |-> rPad]

\* printColumn, lines 470-490: the spaces written left and right of content
hPad(align, padding, pad) ==
    LET lPad == GoDiv(padding, 2)
        rPad == padding - lPad
        l    == GoDiv(pad, 2)
        r    == pad - l
    IN  CASE align = "None" -> [l |-> 0, r |-> 0]
          [] align \in {"TL", "ML", "BL"} -> [l |-> lPad, r |-> rPad + pad]
          [] align \in {"TC", "MC", "BC"} -> [l |-> lPad + l, r |-> rPad + r]
          [] OTHER -> [l |-> lPad + pad, r |-> rPad]

\* printColumn, lines 451-490 and 505-517: what is written after the border glyph
cellText(t, col, line, width, height) ==
    LET line1   == vLine(col.Align, line, height - ColumnHeight(col))
        content == ApplyEscape(t.Escape,
                               IF line1 >= 0 THEN ColumnContent(col, line1) ELSE <<>>)
        p       == hPad(col.Align, t.Padding, width - Len(content))
    IN  Rep(p.l, <<SP>>)
        \o (IF col.Format # "FmtNone" THEN VT100(col.Format) ELSE <<>>)
        \o content
        \o (IF col.Format # "FmtNone" THEN VT100("FmtNone") ELSE <<>>)
        \o Rep(p.r, <<SP>>)

\* printColumn, lines 462-465: the calls of col.Content it makes, by line asked
contentCalls(col, line, height) ==
    LET line1 == vLine(col.Align, line, height - ColumnHeight(col))
    IN  IF line1 >= 0 THEN <<line1>> ELSE <<>>

\* printColumn, lines 492-504: the border glyph written before the cell
cellBorder(t, hdr, idx) ==
    LET B == borders(t.Borders)
    IN  IF hdr THEN (IF idx = 0 THEN B.Header.VL ELSE B.Header.VM)
        ELSE (IF idx = 0 THEN B.Body.VL ELSE B.Body.VM)

\* printColumn; idx and line are 0-based as in the source
printColumn(t, hdr, col, idx, line, width, height) ==
    cellBorder(t, hdr, idx) \o cellText(t, col, line, width, height)

\* one horizontal border line of Print (lines 368-380, 401-413, 433-445)
BorderLine(left, fill, mid, right, widths, padding) ==
    left \o Concat([idx \in 1..Len(widths) |->
                       Rep(widths[idx] + padding, fill)
                       \o (IF idx < Len(widths) THEN mid ELSE right \o <<NL>>)])

\* BlockLines ranging over the block's own columns instead of the widths
BlockLinesOwnColumns(t, hdr, cols, widths, height, vr) ==
    Concat([line \in 1..height |->
               Concat([idx \in 1..Len(cols) |->
                          printColumn(t, hdr, cols[idx],
                                      idx - 1, line - 1, widths[idx], height)])
               \o vr \o <<NL>>])

\* Print, lines 388-399 and 419-430: the lines of one header or row block
BlockLines(t, hdr, cols, widths, height, vr) ==
    Concat([line \in 1..height |->
               Concat([idx \in 1..Len(widths) |->
                          printColumn(t, hdr,
                                      IF idx <= Len(cols) THEN cols[idx] ELSE BlankColumn,
                                      idx - 1, line - 1, widths[idx], height)])
               \o vr \o <<NL>>])

\* Print, lines 349-446 (t.Output = nil): everything one call writes to o
TabulatePrint(t, hdrs) ==
    LET B      == borders(t.Borders)
        widths == Widths(hdrs, t.Rows)
    IN  (IF Len(B.Header.HT) > 0
         THEN BorderLine(B.Header.TL, B.Header.HT, B.Header.TM, B.Header.TR,
                         widths, t.Padding)
         ELSE <<>>)
        \o BlockLines(t, TRUE, hdrs, widths, HeaderHeight(hdrs), B.Header.VR)
        \o (IF Len(B.Header.HM) > 0
            THEN BorderLine(B.Header.ML, B.Header.HM, B.Header.MM, B.Header.MR,
                            widths, t.Padding)
            ELSE <<>>)
        \o Concat([r \in 1..Len(t.Rows) |->
                      BlockLines(t, FALSE, t.Rows[r], widths, RowHeight(t.Rows[r]),
                                 B.Body.VR)])
        \o (IF Len(B.Body.HB) > 0
            THEN BorderLine(B.Body.BL, B.Body.HB, B.Body.BM, B.Body.BR,
                            widths, t.Padding)
            ELSE <<>>)

----------------------------------------------------------------------------
(* JSON: marshalJSON builds a map[string]interface{}, json.Marshal encodes  *)
(* it with its keys sorted, outputJSON writes the encoding.  A JSON value   *)
(* is a string, an array or an object (a function from keys to values).     *)
(* marshalJSON also prints every cell it visits to the standard output,     *)
(* which is no part of this model.                                          *)

JStr(str) == [j |-> "string", s |-> str]
JArr(vs) == [j |-> "array", a |-> vs]
JObj(m) == [j |-> "object", m |-> m]

\* the empty map
EmptyMap == [k \in {} |-> 0]

\* content[key] = v that leaves a key alone once it is set
MapSetKeepFirst(content, key, v) == content @@ (key :> v)

\* content[key] = v
MapSet(content, key, v) == (key :> v) @@ content

errTwoColumns ==
    <<"J", "S", "O", "N", SP, "t", "a", "b", "u", "l", "a", "t", "i", "o",
      "n", SP, "m", "u", "s", "t", SP, "h", "a", "v", "e", SP, "a", "t", SP,
      "l", "e", "a", "s", "t", SP, "t", "w", "o", SP, "c", "o", "l", "u",
      "m", "n", "s">>

RECURSIVE marshalRows(_, _, _, _)
RECURSIVE marshalColumns(_, _, _, _)

\* the inner loop, lines 36-49: the values of row.Columns[i..], i 0-based
marshalColumns(row, i, columns, ts) ==
    IF i >= Len(row) THEN [err |-> <<>>, columns |-> columns]
    ELSE IF row[i + 1].Data.kind = "Tabulate"
    THEN LET sub == marshalRows(ts[row[i + 1].Data.id].Rows, 1, EmptyMap, ts)
         IN  IF sub.err # <<>> THEN [err |-> sub.err, columns |-> <<>>]
             ELSE marshalColumns(row, i + 1, Append(columns, JObj(sub.content)), ts)
    ELSE marshalColumns(row, i + 1,
                        Append(columns, JStr(DataString(row[i + 1].Data))), ts)

\* the loop over t.Rows, lines 31-56, from row r (1-based) on
marshalRows(rows, r, content, ts) ==
    IF r > Len(rows) THEN [err |-> <<>>, content |-> content]
    ELSE IF Len(rows[r]) < 2 THEN [err |-> errTwoColumns, content |-> EmptyMap]
    ELSE LET cols == marshalColumns(rows[r], 1, <<>>, ts)
             key  == DataString(rows[r][1].Data)
         IN  IF cols.err # <<>> THEN [err |-> cols.err, content |-> EmptyMap]
             ELSE marshalRows(rows, r + 1,
                              MapSet(content, key,
                                     IF Len(cols.columns) > 1 THEN JArr(cols.columns)
                                     ELSE cols.columns[1]),
                              ts)

\* t.marshalJSON(); ts are the tables that cells of t may point to
marshalJSON(t, ts) == marshalRows(t.Rows, 1, EmptyMap, ts)

\* the runes in the order of their code points
RuneOrder ==
    <<NL, CR, SP, QUOTE, "%", ",", "-",
      "0", "1", "2", "3", "4", "5", "6", "7", "8", "9", ":", "[", "\\", "]",
      "a", "b", "c", "d", "e", "f", "g", "h", "i", "j", "k", "l", "m", "n",
      "o", "p", "q", "r", "s", "t", "u", "v", "w", "x", "y", "z", "{", "}">>

CodePoint(x) == CHOOSE i \in 1..Len(RuneOrder) : RuneOrder[i] = x

RECURSIVE StrLess(_, _)
\* a < b, as Go compares strings
StrLess(a, b) ==
    IF b = <<>> THEN FALSE
    ELSE IF a = <<>> THEN TRUE
    ELSE IF Head(a) = Head(b) THEN StrLess(Tail(a), Tail(b))
    ELSE CodePoint(Head(a)) < CodePoint(Head(b))

RECURSIVE SortKeys(_)
\* the keys of a map in the order json.Marshal writes them
SortKeys(keys) ==
    IF keys = {} THEN <<>>
    ELSE LET first == CHOOSE k \in keys : \A o \in keys \ {k} : StrLess(k, o)
         IN  <<first>> \o SortKeys(keys \ {first})

RECURSIVE jsonString(_)
\* the escapes of encoding/json for the runes of RuneOrder
jsonString(str) ==
    IF str = <<>> THEN <<>>
    ELSE (CASE Head(str) = QUOTE -> <<"\\", QUOTE>>
            [] Head(str) = "\\"  -> <<"\\", "\\">>
            [] Head(str) = NL    -> <<"\\", "n">>
            [] Head(str) = CR    -> <<"\\", "r">>
            [] OTHER             -> <<Head(str)>>)
         \o jsonString(Tail(str))

RECURSIVE jsonEncode(_)
RECURSIVE jsonList(_)
RECURSIVE jsonMembers(_, _)

\* the elements of an array, separated by commas
jsonList(vs) ==
    IF vs = <<>> THEN <<>>
    ELSE jsonEncode(Head(vs))
         \o (IF Len(vs) > 1 THEN <<",">> ELSE <<>>) \o jsonList(Tail(vs))

\* the members of an object, keys in the order given
jsonMembers(m, keys) ==
    IF keys = <<>> THEN <<>>
    ELSE <<QUOTE>> \o jsonString(Head(keys)) \o <<QUOTE, ":">> \o jsonEncode(m[Head(keys)])
         \o (IF Len(keys) > 1 THEN <<",">> ELSE <<>>) \o jsonMembers(m, Tail(keys))

\* json.Marshal of a value marshalJSON builds
jsonEncode(v) ==
    CASE v.j = "string" -> <<QUOTE>> \o jsonString(v.s) \o <<QUOTE>>
      [] v.j = "array"  -> <<"[">> \o jsonList(v.a) \o <<"]">>
      [] OTHER          -> <<"{">> \o jsonMembers(v.m, SortKeys(DOMAIN v.m)) \o <<"}">>

\* t.MarshalJSON(): the bytes and the error (<<>> is nil)
MarshalJSON(t, ts) ==
    LET c == marshalJSON(t, ts)
    IN  IF c.err # <<>> THEN [bytes |-> <<>>, err |-> c.err]
        ELSE [bytes |-> jsonEncode(JObj(c.content)), err |-> <<>>]

errCallingMarshalJSON ==
    <<"j", "s", "o", "n", ":", SP, "e", "r", "r", "o", "r", SP, "c", "a",
      "l", "l", "i", "n", "g", SP, "M", "a", "r", "s", "h", "a", "l", "J",
      "S", "O", "N", SP, "f", "o", "r", SP, "t", "y", "p", "e", SP, "*", "t",
      "a", "b", "u", "l", "a", "t", "e", ".", "T", "a", "b", "u", "l", "a",
      "t", "e", ":", SP>>

\* json.Marshal(t): the error of t.MarshalJSON() comes back wrapped
jsonMarshalTab(t, ts) ==
    LET r == MarshalJSON(t, ts)
    IN  IF r.err # <<>> THEN [bytes |-> <<>>, err |-> errCallingMarshalJSON \o r.err]
        ELSE r

RECURSIVE Fprintf(_)
\* fmt.Fprintf(o, format) without operands, for a format in which no '%' is
\* followed by a flag, a digit, '.', '*' or '['
Fprintf(format) ==
    IF format = <<>> THEN <<>>
    ELSE IF Head(format) # "%" THEN <<Head(format)>> \o Fprintf(Tail(format))
    ELSE IF Len(format) = 1 THEN <<"%", "!", "(", "N", "O", "V", "E", "R", "B", ")">>
    ELSE IF format[2] = "%" THEN <<"%">> \o Fprintf(SubSeq(format, 3, Len(format)))
    ELSE <<"%", "!", format[2], "(", "M", "I", "S", "S", "I", "N", "G", ")">>
         \o Fprintf(SubSeq(format, 3, Len(format)))

jsonMarshalFailed ==
    <<"J", "S", "O", "N", SP, "m", "a", "r", "s", "h", "a", "l", SP, "f",
      "a", "i", "l", "e", "d", ":", SP>>

\* outputJSON(t, o): everything it writes to o
outputJSON(t, ts) ==
    LET r == jsonMarshalTab(t, ts)
    IN  IF r.err # <<>> THEN jsonMarshalFailed \o r.err
        ELSE Fprintf(r.bytes) \o <<NL>>

\* The same output as the sequence of the Write calls made on o: every
\* fmt.Fprint, fmt.Fprintln and fmt.Fprintf call is one call of o.Write, and
\* none of them looks at what the call before it returned.

\* printColumn, lines 492-517: its Write calls
printColumnWrites(t, hdr, col, idx, line, width, height) ==
    LET line1   == vLine(col.Align, line, height - ColumnHeight(col))
        content == ApplyEscape(t.Escape,
                               IF line1 >= 0 THEN ColumnContent(col, line1) ELSE <<>>)
        p       == hPad(col.Align, t.Padding, width - Len(content))
    IN  <<cellBorder(t, hdr, idx)>>
        \o Rep(p.l, <<<<SP>>>>)
        \o (IF col.Format # "FmtNone" THEN <<VT100(col.Format)>> ELSE <<>>)
        \o <<content>>
        \o (IF col.Format # "FmtNone" THEN <<VT100("FmtNone")>> ELSE <<>>)
        \o Rep(p.r, <<<<SP>>>>)

\* the Write calls of one horizontal border line
BorderWrites(left, fill, mid, right, widths, padding) ==
    <<left>> \o Concat([idx \in 1..Len(widths) |->
                           Rep(widths[idx] + padding, <<fill>>)
                           \o (IF idx < Len(widths) THEN <<mid>>
                               ELSE <<right \o <<NL>>>>)])

\* the Write calls of one header or row block
BlockWrites(t, hdr, cols, widths, height, vr) ==
    Concat([line \in 1..height |->
               Concat([idx \in 1..Len(widths) |->
                          printColumnWrites(t, hdr,
                                            IF idx <= Len(cols) THEN cols[idx]
                                            ELSE BlankColumn,
                                            idx - 1, line - 1, widths[idx], height)])
               \o <<vr \o <<NL>>>>])

\* the Write calls of outputJSON
outputJSONWrites(t, ts) ==
    LET r == jsonMarshalTab(t, ts)
    IN  IF r.err # <<>> THEN <<jsonMarshalFailed \o r.err>>
        ELSE <<Fprintf(r.bytes), <<NL>>>>

\* t.Print(o): the Write calls it makes on o, in order
PrintWrites(t, hdrs, ts) ==
    LET B      == borders(t.Borders)
        widths == Widths(hdrs, t.Rows)
    IN  IF t.Output # "nil" THEN outputJSONWrites(t, ts)
        ELSE
        (IF Len(B.Header.HT) > 0
         THEN BorderWrites(B.Header.TL, B.Header.HT, B.Header.TM, B.Header.TR,
                           widths, t.Padding)
         ELSE <<>>)
        \o BlockWrites(t, TRUE, hdrs, widths, HeaderHeight(hdrs), B.Header.VR)
        \o (IF Len(B.Header.HM) > 0
            THEN BorderWrites(B.Header.ML, B.Header.HM, B.Header.MM, B.Header.MR,
                              widths, t.Padding)
            ELSE <<>>)
        \o Concat([r \in 1..Len(t.Rows) |->
                      BlockWrites(t, FALSE, t.Rows[r], widths, RowHeight(t.Rows[r]),
                                  B.Body.VR)])
        \o (IF Len(B.Body.HB) > 0
            THEN BorderWrites(B.Body.BL, B.Body.HB, B.Body.BM, B.Body.BR,
                              widths, t.Padding)
            ELSE <<>>)

\* t.Print(o): everything it writes to o
PrintOutput(t, hdrs, ts) ==
    IF t.Output # "nil" THEN outputJSON(t, ts) ELSE TabulatePrint(t, hdrs)

----------------------------------------------------------------------------
(* Reflect (src/reflect.go).  A Go value is a record with its kind in       *)
(* `type`: bool and int (GoBool, GoInt), string, ptr (nil or not; a nil     *)
(* pointer knows the type it points to), interface (nil or holding a        *)
(* value), struct (fields with name, tag and value, all exported), map      *)
(* (entries in the order MapRange yields them), slice, and TextMarshaler: a *)
(* struct type whose MarshalText has a value receiver and either returns    *)
(* its text or fails.  A call has three outcomes: "ok", "err" (an error is  *)
(* returned) and "panic".  The table a call fills has no headers; a clone   *)
(* of it filled by a nested call is the Data SubTab(rows).                  *)

GoString(str) == [type |-> "string", v |-> str]
GoNilPtr(to) == [type |-> "ptr", nil |-> TRUE, to |-> to]
GoPtr(v) == [type |-> "ptr", nil |-> FALSE, elem |-> v]
GoNilIface == [type |-> "interface", nil |-> TRUE]
GoIface(v) == [type |-> "interface", nil |-> FALSE, elem |-> v]
GoStruct(fields) == [type |-> "struct", fields |-> fields]
\* a field; Tag is the set of the comma-separated items of its `tabulate` tag
GoField(name, tag, v) == [Name |-> name, Tag |-> tag, v |-> v]
TagOmitEmpty == [tag |-> "omitempty"]
AtTag(name) == [tag |-> "@", name |-> name]
GoMap(entries) == [type |-> "map", entries |-> entries]
GoEntry(key, val) == [key |-> key, val |-> val]
GoSlice(elems) == [type |-> "slice", elems |-> elems]
GoMarshaler(ok) == [type |-> "TextMarshaler", ok |-> ok]
\* reflect.Struct is the Kind of a struct and of the TextMarshaler, which
\* has no field
IsStructKind(v) == v.type \in {"struct", "TextMarshaler"}
FieldsOf(v) == IF v.type = "struct" THEN v.fields ELSE <<>>
\* the untyped nil handed to an interface{} parameter
GoNil == [type |-> "nil"]

\* const OmitEmpty Flags = 1 << iota
OmitEmpty == 1
\* flags&OmitEmpty, compared with 0 or 1 in the code
FlagOmitEmpty(flags) == flags % 2

nilLabel == <<"<", "n", "i", "l", ">">>
\* what MarshalText of the model's TextMarshaler returns
MarshalledText == <<"t">>
errMarshalText == <<"b", "a", "d">>

\* a *Tabulate made by tab.Clone() and filled by a nested call, as Data
SubTab(rows) == [kind |-> "Sub", rows |-> rows]
\* the *Array reflectSliceValue returns: its children are complete when
\* they are appended
ArrayOf(content) == [kind |-> "ArrayOf", content |-> content]

\* row := tab.Row(); row.Column(..) / row.ColumnData(..) on a table
\* without headers: the cells get the zero Column's attributes
ReflectCell(d) == [BlankColumn EXCEPT !.Data = d]

RECURSIVE HasLines(_)
\* data.Height() > 0.  A *Tabulate has the lines of NewLines(its
\* rendering), and strings.Split yields at least one; an Array has the
\* sum of its children's heights.
HasLines(d) ==
    CASE d.kind = "Sub"     -> TRUE
      [] d.kind = "ArrayOf" -> \E k \in 1..Len(d.content) : HasLines(d.content[k])
      [] OTHER              -> DataHeight(d) > 0

RvOk(d) == [st |-> "ok", data |-> d, err |-> <<>>]
RvErr(e) == [st |-> "err", data |-> NilData, err |-> e]
RvPanic == [st |-> "panic", data |-> NilData, err |-> <<>>]
RrOk(rows) == [st |-> "ok", rows |-> rows, err |-> <<>>]
RrErr(rows, e) == [st |-> "err", rows |-> rows, err |-> e]
RrPanic(rows) == [st |-> "panic", rows |-> rows, err |-> <<>>]

RECURSIVE IsTextMarshaler(_)
\* value.Interface().(type) is an encoding.TextMarshaler: the method set of
\* *T holds the methods of T, an interface value is its dynamic value
IsTextMarshaler(value) ==
    CASE value.type = "TextMarshaler" -> TRUE
      [] value.type = "ptr" ->
            IF value.nil THEN value.to = "TextMarshaler"
            ELSE value.elem.type = "TextMarshaler"
      [] value.type = "interface" ->
            IF value.nil THEN FALSE ELSE IsTextMarshaler(value.elem)
      [] OTHER -> FALSE

RECURSIVE CallMarshalText(_)
\* data, err := v.MarshalText(); through a nil *T the call panics
CallMarshalText(value) ==
    CASE value.type = "TextMarshaler" ->
            IF value.ok THEN RvOk(NewLinesData(<<MarshalledText>>))
            ELSE RvErr(errMarshalText)
      [] value.type = "ptr" ->
            IF value.nil THEN RvPanic ELSE CallMarshalText(value.elem)
      [] OTHER -> CallMarshalText(value.elem)

RECURSIVE RowLessLoop(_, _, _, _)
\* the loop of the less function of reflectMap, lines 279-287, from row on
RowLessLoop(di, dj, row, height) ==
    IF row >= height THEN DataHeight(di) <= DataHeight(dj)
    ELSE IF StrLess(DataContent(di, row), DataContent(dj, row)) THEN TRUE
    ELSE IF StrLess(DataContent(dj, row), DataContent(di, row)) THEN FALSE
    ELSE RowLessLoop(di, dj, row + 1, height)

\* less(i, j) of sort.Slice in reflectMap, lines 270-292
RowLess(ri, rj) ==
    RowLessLoop(ri.key, rj.key, 0,
                IF DataHeight(rj.key) < DataHeight(ri.key)
                THEN DataHeight(rj.key) ELSE DataHeight(ri.key))

RECURSIVE InsertRow(_, _)
InsertRow(r, sorted) ==
    IF sorted = <<>> THEN <<r>>
    ELSE IF RowLess(r, Head(sorted)) THEN <<r>> \o sorted
    ELSE <<Head(sorted)>> \o InsertRow(r, Tail(sorted))

RECURSIVE SortRows(_)
\* sort.Slice(rows, less): the rows in ascending order of less
SortRows(rows) ==
    IF rows = <<>> THEN <<>> ELSE InsertRow(Head(rows), SortRows(Tail(rows)))

RECURSIVE reflectValue(_, _, _)
RECURSIVE reflectSliceLoop(_, _, _, _, _)
RECURSIVE reflectMapLoop(_, _, _, _, _)
RECURSIVE reflectStructLoop(_, _, _, _, _)

\* reflectSliceValue, lines 210-242, from element i (1-based) on; content
\* is what has been appended to the Array
reflectSliceLoop(flags, tags, elems, i, content) ==
    IF i > Len(elems) THEN RvOk(ArrayOf(content))
    ELSE LET e == elems[i]
         IN  IF e.type = "ptr" /\ e.nil
             THEN reflectSliceLoop(flags, tags, elems, i + 1,
                     IF FlagOmitEmpty(flags) = 0
                     THEN Append(content, NewLinesData(<<nilLabel>>))
                     ELSE content)
             ELSE LET v == IF e.type = "ptr" THEN e.elem ELSE e
                      sub == IF IsStructKind(v)
                             THEN LET r == reflectStructLoop(flags, tags, FieldsOf(v), 1, <<>>)
                                  IN  [st |-> r.st, data |-> SubTab(r.rows), err |-> r.err]
                             ELSE reflectValue(flags, tags, v)
                  IN  IF sub.st # "ok" THEN [sub EXCEPT !.data = NilData]
                      ELSE reflectSliceLoop(flags, tags, elems, i + 1,
                                            Append(content, sub.data))

\* reflectMap, lines 253-300, from entry i on; rows are the rows collected.
\* The rows it gives are the rows it appends to its table.
reflectMapLoop(flags, tags, entries, i, rows) ==
    IF i > Len(entries)
    THEN LET sorted == SortRows(rows)
         IN  RrOk([k \in 1..Len(sorted) |->
                      <<ReflectCell(sorted[k].key), ReflectCell(sorted[k].val)>>])
    ELSE LET keyData == reflectValue(flags, tags, entries[i].key)
         IN  IF keyData.st = "err" THEN RrErr(<<>>, keyData.err)
             ELSE IF keyData.st = "panic" THEN RrPanic(<<>>)
             ELSE LET valData == reflectValue(flags, tags, entries[i].val)
                  IN  IF valData.st = "err" THEN RrErr(<<>>, valData.err)
                      ELSE IF valData.st = "panic" THEN RrPanic(<<>>)
                      ELSE reflectMapLoop(flags, tags, entries, i + 1,
                              Append(rows, [key |-> keyData.data, val |-> valData.data]))

\* reflectStruct, lines 307-361, from field i on; rows are the rows it has
\* appended to its table so far
reflectStructLoop(flags, tags, fields, i, rows) ==
    IF i > Len(fields) THEN RrOk(rows)
    ELSE LET field   == fields[i]
             \* myFlags |= OmitEmpty, flags being 0 or OmitEmpty
             myFlags == IF TagOmitEmpty \in field.Tag THEN OmitEmpty ELSE flags
             next(rs) == reflectStructLoop(flags, tags, fields, i + 1, rs)
         IN  IF \E tag \in field.Tag : tag.tag = "@" /\ tag.name \notin tags
             THEN next(rows)
             ELSE IF field.v.type = "ptr" /\ field.v.nil
             THEN next(IF FlagOmitEmpty(myFlags) = 0
                       THEN Append(rows, <<ReflectCell(NewLines(field.Name))>>)
                       ELSE rows)
             ELSE LET v == IF field.v.type = "ptr" THEN field.v.elem ELSE field.v
                  IN  IF IsTextMarshaler(v)
                      THEN LET m == CallMarshalText(v)
                           IN  IF m.st = "err" THEN RrErr(rows, m.err)
                               ELSE IF m.st = "panic" THEN RrPanic(rows)
                               ELSE next(Append(rows,
                                            <<ReflectCell(NewLines(field.Name)),
                                              ReflectCell(NewLines(MarshalledText))>>))
                      ELSE LET d == reflectValue(flags, tags, v)
                           IN  IF d.st = "err" THEN RrErr(rows, d.err)
                               ELSE IF d.st = "panic" THEN RrPanic(rows)
                               ELSE next(IF HasLines(d.data) \/ FlagOmitEmpty(flags) = 0
                                         THEN Append(rows,
                                                 <<ReflectCell(NewLines(field.Name)),
                                                   ReflectCell(d.data)>>)
                                         ELSE rows)

\* reflectValue, lines 69-155
reflectValue(flags, tags, value) ==
    IF IsTextMarshaler(value) THEN CallMarshalText(value)
    ELSE IF value.type = "interface" /\ value.nil
    THEN RvOk(IF FlagOmitEmpty(flags) = 0 THEN NewLinesData(<<nilLabel>>)
              ELSE NewLinesData(<<>>))
    ELSE LET v1 == IF value.type = "interface" THEN value.elem ELSE value
         IN  IF v1.type = "ptr" /\ v1.nil
             THEN IF FlagOmitEmpty(flags) = 0 THEN RvOk(NewLinesData(<<nilLabel>>))
                  \* reflect.Indirect of a nil pointer is the zero Value, and
                  \* value.Type() of the zero Value panics
                  ELSE RvPanic
             ELSE LET v2 == IF v1.type = "ptr" THEN v1.elem ELSE v1
                  IN  CASE v2.type \in {"bool", "int"} -> RvOk(NewValue(v2))
                        [] v2.type = "map" ->
                             IF Len(v2.entries) > 0 \/ FlagOmitEmpty(flags) = 0
                             THEN LET r == reflectMapLoop(flags, tags, v2.entries, 1, <<>>)
                                  IN  IF r.st = "ok" THEN RvOk(SubTab(r.rows))
                                      ELSE [st |-> r.st, data |-> NilData, err |-> r.err]
                             ELSE RvOk(NewLinesData(<<>>))
                        [] v2.type = "string" ->
                             RvOk(NewLinesData(SplitNL(TrimRightNL(v2.v))))
                        [] v2.type = "slice" ->
                             reflectSliceLoop(flags, tags, v2.elems, 1, <<>>)
                        [] v2.type = "struct" ->
                             LET r == reflectStructLoop(flags, tags, v2.fields, 1, <<>>)
                             IN  IF r.st = "ok" THEN RvOk(SubTab(r.rows))
                                 ELSE [st |-> r.st, data |-> NilData, err |-> r.err]

\* Reflect(tab, flags, tags, v), lines 32-64: the outcome and the rows the
\* call has appended to tab when it ends
Reflect(flags, tags, v) ==
    IF v.type = "nil" THEN RrPanic(<<>>)
    ELSE IF v.type = "ptr" /\ v.nil THEN RrOk(<<>>)
    ELSE LET value == IF v.type = "ptr" THEN v.elem ELSE v
         IN  IF IsStructKind(value)
             THEN reflectStructLoop(flags, tags, FieldsOf(value), 1, <<>>)
             ELSE IF value.type = "map"
             THEN reflectMapLoop(flags, tags, value.entries, 1, <<>>)
             ELSE LET d == reflectValue(flags, tags, value)
                  IN  IF d.st = "err" THEN RrErr(<<>>, d.err)
                      ELSE IF d.st = "panic" THEN RrPanic(<<>>)
                      ELSE RrOk(<<<<ReflectCell(NewLines(<<>>)), ReflectCell(d.data)>>>>)

----------------------------------------------------------------------------
(* Bounds and input sets *)

MaxHeaders == 2
MaxRows == 2
MaxCells == 2

\* "a", and a two-line label whose first line holds a double quote
LabelA == <<"a">>
LabelBQC == <<"b", QUOTE, NL, "c">>

LayoutLabels == {LabelA, LabelBQC}
LayoutAligns == {"TL", "MC", "BR", "None"}

\* the number of Column objects (headers and cells) of a run of SpecCache,
\* SpecAttr or SpecClone
MaxCols == 2

\* the empty label, and "a"
LabelEmpty == <<>>

CacheStyles == {"Colon", "ASCII"}
CacheLabels == {LabelEmpty, LabelA}
AttrStyles == {"Plain", "Github"}
AttrAligns == {"TL", "MR"}
AttrFormats == {"FmtNone", "FmtBold"}

\* escapeCSV is applied to every string of at most MaxLen runes of EscapeRunes
MaxLen == 3
EscapeRunes == {"a", "b", QUOTE, NL, ","}
Strings(runes, n) == UNION {[1..k -> runes] : k \in 0..n}
EscapeInputs == Strings(EscapeRunes, MaxLen)

\* labels of the CSV runs: "a", a label with a comma, a label of two lines
LabelComma == <<"b", ",">>
LabelLines == <<"c", NL, "d">>
CSVLabels == {LabelA, LabelComma, LabelLines}
CSVAligns == {"TL", "MC", "BR"}

\* the runes U+6D4B and U+8BD5, both East-Asian wide, and the label of both
WideRunes == {"u6D4B", "u8BD5"}
LabelWide == <<"u6D4B", "u8BD5">>
WideLabels == {LabelEmpty, LabelA, LabelWide}

\* a sink takes at most MaxRoom Write calls before it starts to fail
MaxRoom == 2
SinkStyles == {"ASCII", "CSV"}
SinkLabels == {LabelA, LabelLines}

\* the JSON runs: the cells of the outer table, and of the nested one
MaxJSONCells == 4
MaxNestedCells == 2
LabelB == <<"b">>
JSONKeys == {LabelA, LabelB}

\* every style New accepts
AllStyles == GridStyles \cup {"JSON"}

\* one cell in a block: the block is at most MaxHeight lines high, the
\* column at most MaxWidth wide, the padding of the table at most MaxPadding
MaxHeight == 3
MaxWidth == 3
MaxPadding == 3

\* line k (from 1) of the cell: the digit k, twice if k is even
CellLine(k) == Rep(1 + ((k + 1) % 2), <<Digit(k)>>)
CellLines(h) == [k \in 1..h |-> CellLine(k)]

\* SpecAlias: header columns made in all
MaxAppends == 5
AliasLabels == {LabelA, LabelB}

\* SpecNil: the Data handed to HeaderData and ColumnData, nil included
NilStyles == {"Plain", "ASCII"}
NilValues == {NilData, NewLines(LabelA), NewLines(LabelLines)}

\* SpecArray: Array objects made, children appended in all, and the Data
\* appended: of height 0, 1 and 2, of width 0, 1 and 2
MaxArrays == 2
MaxChildren == 3
ArrayLeaves ==
    {NewLinesData(<<>>), NewLines(LabelA), NewLines(LabelLines), NewValue(GoInt(42))}

\* SpecReflect: the values handed to Reflect.  Structs have up to MaxFields
\* fields named a, b, ..; maps and slices up to MaxEntries entries.
MaxFields == 2
MaxEntries == 2
FieldNames == <<LabelA, LabelB, <<"c">>, <<"d">>>>
MapOfNils ==
    GoMap(<<GoEntry(GoString(LabelB), GoNilPtr("int")),
            GoEntry(GoString(LabelA), GoInt(7))>>)
SliceOfNils == GoSlice(<<GoNilPtr("int"), GoNilIface, GoInt(7)>>)
SliceOfStructs ==
    GoSlice(<<GoStruct(<<GoField(LabelA, {}, GoInt(7))>>),
              GoStruct(<<GoField(LabelA, {}, GoMarshaler(FALSE))>>)>>)
FieldValues ==
    {GoInt(7), GoPtr(GoInt(7)), GoNilPtr("int"), GoNilIface, GoIface(GoNilPtr("int")),
     GoMarshaler(TRUE), GoMarshaler(FALSE), GoString(<<>>),
     MapOfNils, SliceOfNils, SliceOfStructs}
FieldTags == {{}, {TagOmitEmpty}, {AtTag("a")}}
TaggedValues ==
    {GoInt(7), GoNilPtr("int"), GoNilIface, GoMarshaler(FALSE), GoMap(<<>>)}
ReflectFields(i) ==
    {GoField(FieldNames[i], {}, v) : v \in FieldValues}
       \cup {GoField(FieldNames[i], tag, v) : tag \in FieldTags, v \in TaggedValues}
RECURSIVE FieldLists(_)
\* the field lists of the structs with n fields
FieldLists(n) ==
    IF n = 0 THEN {<<>>}
    ELSE {Append(fs, f) : fs \in FieldLists(n - 1), f \in ReflectFields(n)}
ReflectStructs(max) == UNION {{GoStruct(fs) : fs \in FieldLists(n)} : n \in 0..max}
ElemValues ==
    {GoInt(7), GoNilPtr("int"), GoNilPtr("TextMarshaler"), GoNilIface,
     GoMarshaler(TRUE), GoMarshaler(FALSE)}
RECURSIVE EntryLists(_, _)
\* the entry lists of n entries with different keys, the keys taken from
\* the first max field names, in any order
EntryLists(n, max) ==
    IF n = 0 THEN {<<>>}
    ELSE {Append(es, GoEntry(GoString(FieldNames[k]), v)) :
             es \in EntryLists(n - 1, max), k \in 1..max, v \in ElemValues}
ReflectMaps(max) ==
    UNION {{GoMap(es) : es \in {x \in EntryLists(n, max) :
                                   \A i, j \in 1..n : x[i].key = x[j].key => i = j}} :
           n \in 0..max}
ReflectSlices(max) ==
    UNION {{GoSlice(es) : es \in [1..n -> ElemValues]} : n \in 0..max}
ReflectInputs(maxFields, maxEntries) ==
    {GoNil, GoNilPtr("struct"), GoInt(7), GoString(LabelLines), GoMarshaler(FALSE)}
       \cup ReflectStructs(maxFields) \cup {GoPtr(x) : x \in ReflectStructs(maxFields)}
       \cup ReflectMaps(maxEntries) \cup ReflectSlices(maxEntries)
ReflectTags == {{}, {"a"}}

\* SpecThreads: the methods the goroutines call, and the labels of the table
ThreadFns == {"Print", "Width", "Height", "Content"}
ThreadLabels == {LabelA, LabelLines}

----------------------------------------------------------------------------
(* Operations.  op is the last call: its name, its table (0 for a call on *)
(* a header column), for a call on a column the row and the cell index (or  *)
(* 0 and the heap index of the header), and for a Data call whether it      *)
(* rendered.  written holds what the last Print calls wrote, newest last,   *)
(* since the last builder call (at most the last two).  touched is the set  *)
(* of cells on which SetAlign or SetFormat has been called.  arrays is the  *)
(* heap of Array objects, threads the goroutines reading a table.           *)

\* no writer, no value returned yet
NoSink == [room |-> 0, calls |-> <<>>]

\* the goroutines that read table 1.  t.asData is an interface value, two
\* machine words: slot.tab is whether the type word is set (to *Lines),
\* slot.data is the pointer word: 0 for nil, x for the Lines that goroutine
\* x has made.  th[x] is where goroutine x is in its call, the Lines it has
\* made (made) and what its call has returned (got, panicked).
ThreadIds == {1, 2}
NilSlot == [tab |-> FALSE, data |-> 0]
IdleThread == [pc |-> "idle", fn |-> "none", made |-> NilData, got |-> NilData,
               panicked |-> FALSE]
NoThreads == [slot |-> NilSlot, th |-> [x \in ThreadIds |-> IdleThread]]
NoRet == [fn |-> "none"]

Op(name, t, r, c) == [name |-> name, t |-> t, r |-> r, c |-> c, fresh |-> FALSE]

HeaderRef(id) == [t |-> 0, r |-> 0, c |-> id]
CellRef(t, r, c) == [t |-> t, r |-> r, c |-> c]

\* capacity of the array append allocates when len = cap (Go runtime, 8-byte elements)
GrowCap(cap) == IF cap = 0 THEN 1 ELSE 2 * cap

\* append(t.Headers, col): the new slice and the new backing arrays
AppendSlice(s, arrs, id) ==
    IF s.len < s.cap
    THEN [slice |-> [s EXCEPT !.len = s.len + 1],
          arrs  |-> [arrs EXCEPT ![s.arr][s.len + 1] = id]]
    ELSE [slice |-> [arr |-> Len(arrs) + 1, len |-> s.len + 1, cap |-> GrowCap(s.cap)],
          arrs  |-> Append(arrs,
                           [k \in 1..GrowCap(s.cap) |->
                               IF k <= s.len THEN arrs[s.arr][k]
                               ELSE IF k = s.len + 1 THEN id ELSE 0])]

InitStyle(style) ==
    /\ tabs = [t \in TabIds |-> IF t = 1 THEN New(style) ELSE NoTab]
    /\ hcols = <<>>
    /\ harr = <<>>
    /\ written = <<>>
    /\ op = Op("New", 1, 0, 0)
    /\ touched = {}
    /\ sink = NoSink
    /\ ret = NoRet
    /\ arrays = <<>>
    /\ threads = NoThreads

\* t.HeaderData(data)
HeaderData(t, data) ==
    /\ tabs[t].live
    /\ LET col == [Align |-> "TL", Data |-> data, Format |-> "FmtNone"]
           id  == Len(hcols) + 1
           app == AppendSlice(tabs[t].Headers, harr, id)
       IN  /\ hcols' = Append(hcols, col)
           /\ harr' = app.arrs
           /\ tabs' = [tabs EXCEPT ![t].Headers = app.slice]
           /\ op' = Op("Header", t, 0, id)
    /\ written' = <<>>
    /\ UNCHANGED <<touched, sink, ret, arrays, threads>>

\* t.Header(label)
Header(t, label) == HeaderData(t, NewLines(label))

\* t.Row()
Row(t) ==
    /\ tabs[t].live
    /\ tabs' = [tabs EXCEPT ![t].Rows = Append(@, <<>>)]
    /\ op' = Op("Row", t, 0, 0)
    /\ written' = <<>>
    /\ UNCHANGED <<hcols, harr, touched, sink, ret, arrays, threads>>

\* ColumnData taking the alignment of the header but not its format
ColumnDataAlignOnly(t, r, data) ==
    /\ tabs[t].live
    /\ r \in 1..Len(tabs[t].Rows)
    /\ LET idx == Len(tabs[t].Rows[r])
           hdr == IF idx < tabs[t].Headers.len
                  THEN HeadersOf(tabs[t], hcols, harr)[idx + 1]
                  ELSE BlankColumn
           col == [Align |-> hdr.Align, Data |-> data, Format |-> "FmtNone"]
       IN  tabs' = [tabs EXCEPT ![t].Rows[r] = Append(@, col)]
    /\ op' = Op("Column", t, r, Len(tabs[t].Rows[r]) + 1)
    /\ written' = <<>>
    /\ UNCHANGED <<hcols, harr, touched, sink, ret, arrays, threads>>

\* r.ColumnData(data), r the row at index r of table t (r.Tab = t)
ColumnData(t, r, data) ==
    /\ tabs[t].live
    /\ r \in 1..Len(tabs[t].Rows)
    /\ LET idx == Len(tabs[t].Rows[r])
           hdr == IF idx < tabs[t].Headers.len
                  THEN HeadersOf(tabs[t], hcols, harr)[idx + 1]
                  ELSE BlankColumn
           col == [Align |-> hdr.Align, Data |-> data, Format |-> hdr.Format]
       IN  tabs' = [tabs EXCEPT ![t].Rows[r] = Append(@, col)]
    /\ op' = Op("Column", t, r, Len(tabs[t].Rows[r]) + 1)
    /\ written' = <<>>
    /\ UNCHANGED <<hcols, harr, touched, sink, ret, arrays, threads>>

\* r.Column(label)
Column(t, r, label) == ColumnData(t, r, NewLines(label))

\* the columns a caller can hold a pointer to: every header column ever
\* made, and the cells of the rows
IsRef(ref) ==
    IF ref.t = 0 THEN ref.c \in 1..Len(hcols)
    ELSE /\ ref.t \in TabIds
         /\ ref.r \in 1..Len(tabs[ref.t].Rows)
         /\ ref.c \in 1..Len(tabs[ref.t].Rows[ref.r])

\* col.SetAlign(align)
SetAlign(ref, align) ==
    /\ IsRef(ref)
    /\ IF ref.t = 0
       THEN /\ hcols' = [hcols EXCEPT ![ref.c].Align = align]
            /\ UNCHANGED <<tabs, touched, arrays, threads>>
       ELSE /\ tabs' = [tabs EXCEPT ![ref.t].Rows[ref.r][ref.c].Align = align]
            /\ touched' = touched \cup {ref}
            /\ UNCHANGED hcols
    /\ op' = Op("SetAlign", ref.t, ref.r, ref.c)
    /\ written' = <<>>
    /\ UNCHANGED <<harr, sink, ret, arrays, threads>>

\* col.SetFormat(format)
SetFormat(ref, format) ==
    /\ IsRef(ref)
    /\ IF ref.t = 0
       THEN /\ hcols' = [hcols EXCEPT ![ref.c].Format = format]
            /\ UNCHANGED <<tabs, touched, arrays, threads>>
       ELSE /\ tabs' = [tabs EXCEPT ![ref.t].Rows[ref.r][ref.c].Format = format]
            /\ touched' = touched \cup {ref}
            /\ UNCHANGED hcols
    /\ op' = Op("SetFormat", ref.t, ref.r, ref.c)
    /\ written' = <<>>
    /\ UNCHANGED <<harr, sink, ret, arrays, threads>>

\* what o holds of the last calls after one more call wrote out
Written(w, t, out) ==
    (IF w = <<>> THEN <<>> ELSE <<w[Len(w)]>>) \o <<[t |-> t, out |-> out]>>

\* arr := new(Array)
DoNewArray ==
    /\ arrays' = Append(arrays, NewArray)
    /\ op' = Op("NewArray", Len(arrays) + 1, 0, 0)
    /\ UNCHANGED <<tabs, hcols, harr, written, touched, sink, ret, threads>>

\* arr.Append(data), arr the Array id
DoArrayAppend(id, d) ==
    /\ id \in 1..Len(arrays)
    /\ arrays' = [arrays EXCEPT ![id] = ArrayAppend(arrays, id, d)]
    /\ op' = Op("Append", id, 0, Len(arrays[id].content) + 1)
    /\ UNCHANGED <<tabs, hcols, harr, written, touched, sink, ret, threads>>

\* err := Reflect(tab, flags, tags, v) under a deferred recover(): ret tells
\* how the call ended and what the rows of tab were before it
DoReflect(t, flags, tags, v) ==
    /\ tabs[t].live
    /\ LET r == Reflect(flags, tags, v)
       IN  /\ tabs' = [tabs EXCEPT ![t].Rows = @ \o r.rows]
           /\ ret' = [fn |-> "Reflect", st |-> r.st, err |-> r.err, flags |-> flags,
                      tags |-> tags, v |-> v, before |-> tabs[t].Rows]
    /\ op' = Op("Reflect", t, 0, 0)
    /\ written' = <<>>
    /\ UNCHANGED <<hcols, harr, touched, sink, arrays, threads>>

\* goroutine x calls t.Print(o) on its own o, or one of t.Width(),
\* t.Height(), t.Content(row), which start with t.data()
ThreadCall(x, fn) ==
    /\ threads.th[x].pc = "idle"
    /\ threads' = [threads EXCEPT !.th[x].pc = IF fn = "Print" THEN "print" ELSE "check",
                                  !.th[x].fn = fn]
    /\ op' = Op(fn, 1, 0, 0)
    /\ UNCHANGED <<tabs, hcols, harr, written, touched, sink, ret, arrays>>

\* t.Print(o) of goroutine x, t.Output = nil: it reads the table only
ThreadPrint(x) ==
    /\ threads.th[x].pc = "print"
    /\ threads' = [threads EXCEPT
                      !.th[x].pc = "done",
                      !.th[x].got = NewLines(TabulatePrint(tabs[1],
                                                HeadersOf(tabs[1], hcols, harr)))]
    /\ UNCHANGED <<tabs, hcols, harr, written, op, touched, sink, ret, arrays>>

\* data, line 521: if t.asData == nil, a test of the type word
ThreadCheck(x) ==
    /\ threads.th[x].pc = "check"
    /\ threads' = [threads EXCEPT
                      !.th[x].pc = IF threads.slot.tab THEN "return" ELSE "render"]
    /\ UNCHANGED <<tabs, hcols, harr, written, op, touched, sink, ret, arrays>>

\* data, lines 522-524: t.Print(builder) and NewLines(builder.String())
ThreadRender(x) ==
    /\ threads.th[x].pc = "render"
    /\ threads' = [threads EXCEPT
                      !.th[x].pc = "store",
                      !.th[x].made = NewLines(TabulatePrint(tabs[1],
                                                 HeadersOf(tabs[1], hcols, harr)))]
    /\ UNCHANGED <<tabs, hcols, harr, written, op, touched, sink, ret, arrays>>

\* data, line 524: t.asData = ..., an unsynchronized store of two words;
\* which word is stored first is the compiler's choice
ThreadStoreFirst(x, word) ==
    /\ threads.th[x].pc = "store"
    /\ threads' = [threads EXCEPT
                      !.slot = IF word = "tab" THEN [@ EXCEPT !.tab = TRUE]
                               ELSE [@ EXCEPT !.data = x],
                      !.th[x].pc = IF word = "tab" THEN "storeData" ELSE "storeTab"]
    /\ UNCHANGED <<tabs, hcols, harr, written, op, touched, sink, ret, arrays>>

\* the second word of the store; t.asData then is the Lines the pointer
\* word points to
ThreadStoreSecond(x) ==
    /\ threads.th[x].pc \in {"storeData", "storeTab"}
    /\ LET slot == IF threads.th[x].pc = "storeTab"
                   THEN [threads.slot EXCEPT !.tab = TRUE]
                   ELSE [threads.slot EXCEPT !.data = x]
       IN  /\ threads' = [threads EXCEPT !.slot = slot, !.th[x].pc = "return"]
           /\ tabs' = [tabs EXCEPT ![1].asData = threads.th[slot.data].made]
    /\ UNCHANGED <<hcols, harr, written, op, touched, sink, ret, arrays>>

\* data, line 526, and the method called on what it returns: return
\* t.asData loads the two words; with the type word set and the pointer word
\* nil the value is a nil *Lines, and its Width, Height or Content
\* dereferences nil
ThreadReturn(x) ==
    /\ threads.th[x].pc = "return"
    /\ threads' = [threads EXCEPT
                      !.th[x].pc = "done",
                      !.th[x].panicked = (threads.slot.data = 0),
                      !.th[x].got = IF threads.slot.data = 0 THEN NilData
                                    ELSE threads.th[threads.slot.data].made]
    /\ UNCHANGED <<tabs, hcols, harr, written, op, touched, sink, ret, arrays>>

\* Print made to square the table up first: every row is filled with blank
\* cells up to the number of columns, in the table itself
DoPrintFillsRows(t) ==
    /\ tabs[t].live
    /\ tabs[t].Output = "nil"
    /\ written' = Written(written, t,
                          TabulatePrint(tabs[t], HeadersOf(tabs[t], hcols, harr)))
    /\ op' = Op("Print", t, 0, 0)
    /\ tabs' = [tabs EXCEPT ![t].Rows =
                   [r \in 1..Len(@) |->
                       @[r] \o [k \in 1..(Len(Widths(HeadersOf(tabs[t], hcols, harr), @))
                                          - Len(@[r])) |-> BlankColumn]]]
    /\ UNCHANGED <<hcols, harr, touched, sink, ret, arrays, threads>>

\* t.Print(o)
DoPrint(t) ==
    /\ tabs[t].live
    /\ written' = Written(written, t,
                          PrintOutput(tabs[t], HeadersOf(tabs[t], hcols, harr), tabs))
    /\ op' = Op("Print", t, 0, 0)
    /\ UNCHANGED <<tabs, hcols, harr, touched, sink, ret, arrays, threads>>

\* the first nil dereference of Print, if any: "header" for hdr.Data.Width()
\* at line 352 on a header whose Data is nil, "row" for a Row.Height()
\* (line 570) that meets a cell whose Data is nil, else "none".
\* Print's own header-height loop (line 384) is never the first: line 352
\* has dereferenced every header before.
PrintPanicsAt(t, hdrs) ==
    IF \E i \in 1..Len(hdrs) : hdrs[i].Data.kind = "nil" THEN "header"
    ELSE IF \E r \in 1..Len(t.Rows) : \E c \in 1..Len(t.Rows[r]) :
                t.Rows[r][c].Data.kind = "nil"
         THEN "row"
         ELSE "none"

\* what Print (t.Output = nil) has written when it panics in row `first`:
\* the top border, the header block, the separator and the rows before
PrintUntilRow(t, hdrs, first) ==
    LET B      == borders(t.Borders)
        widths == Widths(hdrs, t.Rows)
    IN  (IF Len(B.Header.HT) > 0
         THEN BorderLine(B.Header.TL, B.Header.HT, B.Header.TM, B.Header.TR,
                         widths, t.Padding)
         ELSE <<>>)
        \o BlockLines(t, TRUE, hdrs, widths, HeaderHeight(hdrs), B.Header.VR)
        \o (IF Len(B.Header.HM) > 0
            THEN BorderLine(B.Header.ML, B.Header.HM, B.Header.MM, B.Header.MR,
                            widths, t.Padding)
            ELSE <<>>)
        \o Concat([r \in 1..(first - 1) |->
                      BlockLines(t, FALSE, t.Rows[r], widths, RowHeight(t.Rows[r]),
                                 B.Body.VR)])

\* the first row with a nil cell
FirstNilRow(t) ==
    CHOOSE r \in 1..Len(t.Rows) :
        /\ \E c \in 1..Len(t.Rows[r]) : t.Rows[r][c].Data.kind = "nil"
        /\ \A q \in 1..(r - 1) : \A c \in 1..Len(t.Rows[q]) :
              t.Rows[q][c].Data.kind # "nil"

\* t.Print(o) under a deferred recover(), t.Output = nil: ret tells whether
\* the call panicked, written what o got
DoPrintRecover(t) ==
    /\ tabs[t].live
    /\ tabs[t].Output = "nil"
    /\ LET hdrs == HeadersOf(tabs[t], hcols, harr)
           at   == PrintPanicsAt(tabs[t], hdrs)
       IN  /\ ret' = [fn |-> "Print", panicked |-> at # "none"]
           /\ written' = Written(written, t,
                            IF at = "none" THEN TabulatePrint(tabs[t], hdrs)
                            ELSE IF at = "header" THEN <<>>
                            ELSE PrintUntilRow(tabs[t], hdrs, FirstNilRow(tabs[t])))
    /\ op' = Op("Print", t, 0, 0)
    /\ UNCHANGED <<tabs, hcols, harr, touched, sink, arrays, threads>>

\* t.Print(o) on a writer o that takes room Write calls and fails every call
\* after them (a closed destination).  sink.calls are the Write calls made on
\* o, in order; the first sink.room of them succeeded.  Print has no result.
DoPrintTo(t, room) ==
    /\ tabs[t].live
    /\ sink' = [room  |-> room,
                calls |-> PrintWrites(tabs[t], HeadersOf(tabs[t], hcols, harr), tabs)]
    /\ ret' = [fn |-> "Print", values |-> <<>>]
    /\ op' = Op("Print", t, 0, 0)
    /\ UNCHANGED <<tabs, hcols, harr, written, touched, arrays, threads>>

\* data, err := t.MarshalJSON()
DoMarshalJSON(t) ==
    /\ tabs[t].live
    /\ LET r == MarshalJSON(tabs[t], tabs)
       IN  ret' = [fn |-> "MarshalJSON", bytes |-> r.bytes, err |-> r.err]
    /\ op' = Op("MarshalJSON", t, 0, 0)
    /\ UNCHANGED <<tabs, hcols, harr, written, touched, sink, arrays, threads>>

\* data() without its test of t.asData: every call renders
dataRendersAlways(t, hdrs) == NewLines(TabulatePrint(t, hdrs))

\* t.data(): the value of t.asData when the call returns
data(t, hdrs) ==
    IF t.asData.kind = "nil" THEN NewLines(TabulatePrint(t, hdrs)) ELSE t.asData

\* t.Width(), t.Height(), t.Content(row), t.String(): each calls t.data() and
\* answers from the Data it returns
DoData(t) ==
    /\ tabs[t].live
    /\ tabs[t].Output = "nil"
    /\ tabs' = [tabs EXCEPT ![t].asData = data(tabs[t], HeadersOf(tabs[t], hcols, harr))]
    /\ op' = [Op("Data", t, 0, 0) EXCEPT !.fresh = (tabs[t].asData.kind = "nil")]
    /\ UNCHANGED <<hcols, harr, written, touched, sink, ret, arrays, threads>>

\* Clone with the rows carried over
CloneWithRows(t) ==
    [live    |-> TRUE,
     Padding |-> t.Padding,
     Borders |-> t.Borders,
     Escape  |-> t.Escape,
     Output  |-> "nil",
     Headers |-> t.Headers,
     Rows    |-> t.Rows,
     asData  |-> NilData]

\* t.Clone(): the new Tabulate
Clone(t) ==
    [live    |-> TRUE,
     Padding |-> t.Padding,
     Borders |-> t.Borders,
     Escape  |-> t.Escape,
     Output  |-> "nil",
     Headers |-> t.Headers,
     Rows    |-> <<>>,
     asData  |-> NilData]

\* c := t.Clone(), c the second table
DoClone(t, c) ==
    /\ tabs[t].live
    /\ ~tabs[c].live
    /\ tabs' = [tabs EXCEPT ![c] = Clone(tabs[t])]
    /\ op' = Op("Clone", c, 0, 0)
    /\ written' = <<>>
    /\ UNCHANGED <<hcols, harr, touched, sink, ret, arrays, threads>>

RECURSIVE SumLens(_)
SumLens(rows) == IF rows = <<>> THEN 0 ELSE Len(Head(rows)) + SumLens(Tail(rows))

\* the number of cells of a table
TotalCells(t) == SumLens(t.Rows)

----------------------------------------------------------------------------
(* SpecLayout: one table of any grid style, built the way the tests build   *)
(* it (every tab.Header(hdr).SetAlign(align) with the same align, then the  *)
(* rows, each row getting its cells before the next row is made), and      *)
(* printed.                                                                 *)

InitLayout == \E style \in GridStyles : InitStyle(style)

LayoutHeader ==
    /\ op.name # "Header"
    /\ tabs[1].Rows = <<>>
    /\ tabs[1].Headers.len < MaxHeaders
    /\ \E l \in LayoutLabels : Header(1, l)

LayoutSetAlign ==
    /\ op.name = "Header"
    /\ \E a \in LayoutAligns :
          /\ op.c = 1 \/ a = hcols[1].Align
          /\ SetAlign(HeaderRef(op.c), a)

LayoutRow ==
    /\ op.name # "Header"
    /\ Len(tabs[1].Rows) < MaxRows
    /\ Row(1)

LayoutColumn ==
    /\ op.name # "Header"
    /\ TotalCells(tabs[1]) < MaxCells
    /\ tabs[1].Rows # <<>>
    /\ \E l \in LayoutLabels : Column(1, Len(tabs[1].Rows), l)

\* one Print per state of the table
LayoutPrint ==
    /\ op.name # "Header"
    /\ written = <<>>
    /\ DoPrint(1)

NextLayout ==
    \/ LayoutHeader
    \/ LayoutSetAlign
    \/ LayoutRow
    \/ LayoutColumn
    \/ LayoutPrint

SpecLayout == InitLayout /\ [][NextLayout]_vars

\* the number of Column objects made so far: headers, and cells of both tables
NumObjects == Len(hcols) + TotalCells(tabs[1]) + TotalCells(tabs[2])

\* every column a caller holds a pointer to
Refs ==
    {HeaderRef(id) : id \in 1..Len(hcols)}
    \cup UNION {UNION {{CellRef(t, r, c) : c \in 1..Len(tabs[t].Rows[r])}
                        : r \in 1..Len(tabs[t].Rows)} : t \in TabIds}

----------------------------------------------------------------------------
(* SpecCache: one table, built in any order, each header or cell getting    *)
(* its alignment or format, if any, from the call chained to the one that   *)
(* made it (tab.Header("a").SetAlign(MR)); the table is printed and read as *)
(* Data (Width, Height, Content, String) at any point.                      *)

\* the column the last call returned, when it was Header or Column
Chained == op.name \in {"Header", "Column"}
LastMade == IF op.name = "Header" THEN HeaderRef(op.c) ELSE CellRef(op.t, op.r, op.c)

InitCache == \E style \in CacheStyles : InitStyle(style)

CacheHeader ==
    /\ NumObjects < MaxCols
    /\ Header(1, LabelA)

CacheRow ==
    /\ Len(tabs[1].Rows) < MaxRows
    /\ Row(1)

CacheColumn ==
    /\ NumObjects < MaxCols
    /\ \E r \in 1..Len(tabs[1].Rows), l \in CacheLabels : Column(1, r, l)

CacheSetAlign == Chained /\ SetAlign(LastMade, "MR")

CacheSetFormat == Chained /\ SetFormat(LastMade, "FmtBold")

\* one Print per state of the table
CachePrint == written = <<>> /\ DoPrint(1)

CacheData == DoData(1)

NextCache ==
    \/ CacheHeader
    \/ CacheRow
    \/ CacheColumn
    \/ CacheSetAlign
    \/ CacheSetFormat
    \/ CachePrint
    \/ CacheData

SpecCache == InitCache /\ [][NextCache]_vars

----------------------------------------------------------------------------
(* SpecAttr: one table; headers, rows and cells are added, the alignment    *)
(* and format of any header or cell are set, and the table is printed, in   *)
(* any order and any number of times.                                       *)

InitAttr == \E style \in AttrStyles : InitStyle(style)

AttrHeader ==
    /\ NumObjects < MaxCols
    /\ Header(1, LabelA)

AttrRow ==
    /\ Len(tabs[1].Rows) < MaxRows
    /\ Row(1)

AttrColumn ==
    /\ NumObjects < MaxCols
    /\ \E r \in 1..Len(tabs[1].Rows) : Column(1, r, LabelA)

AttrSetAlign == \E ref \in Refs, a \in AttrAligns : SetAlign(ref, a)

AttrSetFormat == \E ref \in Refs, f \in AttrFormats : SetFormat(ref, f)

AttrPrint == DoPrint(1)

NextAttr ==
    \/ AttrHeader
    \/ AttrRow
    \/ AttrColumn
    \/ AttrSetAlign
    \/ AttrSetFormat
    \/ AttrPrint

SpecAttr == InitAttr /\ [][NextAttr]_vars

----------------------------------------------------------------------------
(* SpecClone: a table and a clone of it, made at any point; headers, rows   *)
(* and cells are added to either, either is read as Data.                   *)

InitClone == InitStyle("ASCII")

CloneHeader ==
    /\ NumObjects < MaxCols
    /\ \E t \in TabIds : Header(t, LabelA)

CloneRow ==
    \E t \in TabIds :
        /\ Len(tabs[t].Rows) < MaxRows
        /\ Row(t)

CloneColumn ==
    /\ NumObjects < MaxCols
    /\ \E t \in TabIds : \E r \in 1..Len(tabs[t].Rows) : Column(t, r, LabelA)

CloneSetAlign == \E id \in 1..Len(hcols), a \in AttrAligns : SetAlign(HeaderRef(id), a)

CloneClone == DoClone(1, 2)

CloneData == \E t \in TabIds : DoData(t)

NextClone ==
    \/ CloneHeader
    \/ CloneRow
    \/ CloneColumn
    \/ CloneSetAlign
    \/ CloneClone
    \/ CloneData

SpecClone == InitClone /\ [][NextClone]_vars

----------------------------------------------------------------------------
(* SpecEscape: escapeCSV applied to any string; ret holds the last call,    *)
(* its argument and what it returned.                                       *)

InitEscape == InitStyle("CSV")

EscapeCall ==
    \E val \in EscapeInputs :
        /\ ret' = [fn |-> "escapeCSV", arg |-> val, out |-> escapeCSV(val)]
        /\ UNCHANGED <<tabs, hcols, harr, written, op, touched, sink, arrays, threads>>

NextEscape == EscapeCall

SpecEscape == InitEscape /\ [][NextEscape]_vars

----------------------------------------------------------------------------
(* SpecCSV: one table of the CSV style, built the way the tests build it    *)
(* (the headers, all with the same alignment, then the rows), and printed.  *)

InitCSV == InitStyle("CSV")

CSVHeader ==
    /\ op.name # "Header"
    /\ tabs[1].Rows = <<>>
    /\ tabs[1].Headers.len < MaxHeaders
    /\ \E l \in CSVLabels : Header(1, l)

CSVSetAlign ==
    /\ op.name = "Header"
    /\ \E a \in CSVAligns :
          /\ op.c = 1 \/ a = hcols[1].Align
          /\ SetAlign(HeaderRef(op.c), a)

CSVRow ==
    /\ op.name # "Header"
    /\ Len(tabs[1].Rows) < MaxRows
    /\ Row(1)

CSVColumn ==
    /\ op.name # "Header"
    /\ TotalCells(tabs[1]) < MaxCells
    /\ tabs[1].Rows # <<>>
    /\ \E l \in CSVLabels : Column(1, Len(tabs[1].Rows), l)

CSVPrint ==
    /\ op.name # "Header"
    /\ written = <<>>
    /\ DoPrint(1)

NextCSV ==
    \/ CSVHeader
    \/ CSVSetAlign
    \/ CSVRow
    \/ CSVColumn
    \/ CSVPrint

SpecCSV == InitCSV /\ [][NextCSV]_vars

----------------------------------------------------------------------------
(* SpecWide: one ASCII table whose headers and cells are "", "a" or a text   *)
(* of two wide runes, printed.                                              *)

InitWide == InitStyle("ASCII")

WideHeader ==
    /\ tabs[1].Rows = <<>>
    /\ tabs[1].Headers.len < MaxHeaders
    /\ \E l \in WideLabels : Header(1, l)

WideRow ==
    /\ Len(tabs[1].Rows) < MaxRows
    /\ Row(1)

WideColumn ==
    /\ TotalCells(tabs[1]) < MaxCells
    /\ tabs[1].Rows # <<>>
    /\ \E l \in WideLabels : Column(1, Len(tabs[1].Rows), l)

WidePrint ==
    /\ written = <<>>
    /\ DoPrint(1)

NextWide ==
    \/ WideHeader
    \/ WideRow
    \/ WideColumn
    \/ WidePrint

SpecWide == InitWide /\ [][NextWide]_vars

----------------------------------------------------------------------------
(* SpecSink: one table is built and then printed to a writer that fails     *)
(* after some number of Write calls.                                        *)

InitSink == \E style \in SinkStyles : InitStyle(style)

SinkHeader ==
    /\ ret = NoRet
    /\ tabs[1].Rows = <<>>
    /\ tabs[1].Headers.len < MaxHeaders
    /\ \E l \in SinkLabels : Header(1, l)

SinkRow ==
    /\ ret = NoRet
    /\ Len(tabs[1].Rows) < MaxRows
    /\ Row(1)

SinkColumn ==
    /\ ret = NoRet
    /\ TotalCells(tabs[1]) < MaxCells
    /\ tabs[1].Rows # <<>>
    /\ \E l \in SinkLabels : Column(1, Len(tabs[1].Rows), l)

SinkPrint ==
    /\ ret = NoRet
    /\ \E room \in 0..MaxRoom : DoPrintTo(1, room)

NextSink ==
    \/ SinkHeader
    \/ SinkRow
    \/ SinkColumn
    \/ SinkPrint

SpecSink == InitSink /\ [][NextSink]_vars

----------------------------------------------------------------------------
(* SpecJSON: a table of the JSON style and a second table that is put into  *)
(* cells of the first.  The first cell of a row is a text; the other cells  *)
(* are texts, booleans or numbers given to NewValue, or the second table.   *)
(* The second table is built before the first; the first is printed at      *)
(* any point and marshalled after it was printed.                           *)

\* what a cell after the first is made of
JSONValues == {NewLines(LabelLines), NewValue(GoBool(FALSE)), TabData(2)}

\* what a cell after the first of the nested table is made of
NestedValues == {NewValue(GoInt(42))}

InitJSON ==
    /\ tabs = [t \in TabIds |-> IF t = 1 THEN New("JSON") ELSE New("Plain")]
    /\ hcols = <<>>
    /\ harr = <<>>
    /\ written = <<>>
    /\ op = Op("New", 2, 0, 0)
    /\ touched = {}
    /\ sink = NoSink
    /\ ret = NoRet
    /\ arrays = <<>>
    /\ threads = NoThreads

JSONHeader ==
    /\ ret = NoRet
    /\ tabs[1].Rows = <<>>
    /\ tabs[1].Headers.len < MaxHeaders
    /\ Header(1, LabelA)

JSONRow ==
    /\ ret = NoRet
    /\ \E t \in TabIds :
          /\ t = 2 => tabs[1].Rows = <<>> /\ tabs[1].Headers.len = 0
          /\ Len(tabs[t].Rows) < (IF t = 1 THEN MaxRows ELSE 1)
          /\ Row(t)

JSONKey ==
    /\ ret = NoRet
    /\ \E t \in TabIds :
          /\ t = 2 => tabs[1].Rows = <<>> /\ tabs[1].Headers.len = 0
          /\ tabs[t].Rows # <<>>
          /\ tabs[t].Rows[Len(tabs[t].Rows)] = <<>>
          /\ TotalCells(tabs[t]) < (IF t = 1 THEN MaxJSONCells ELSE MaxNestedCells)
          /\ \E l \in (IF t = 1 THEN JSONKeys ELSE {LabelA}) :
                Column(t, Len(tabs[t].Rows), l)

JSONColumn ==
    /\ ret = NoRet
    /\ \E t \in TabIds :
          /\ t = 2 => tabs[1].Rows = <<>> /\ tabs[1].Headers.len = 0
          /\ tabs[t].Rows # <<>>
          /\ tabs[t].Rows[Len(tabs[t].Rows)] # <<>>
          /\ TotalCells(tabs[t]) < (IF t = 1 THEN MaxJSONCells ELSE MaxNestedCells)
          /\ \E d \in (IF t = 1 THEN JSONValues ELSE NestedValues) :
                ColumnData(t, Len(tabs[t].Rows), d)

JSONPrint ==
    /\ written = <<>>
    /\ DoPrint(1)

JSONMarshal ==
    /\ ret = NoRet
    /\ written # <<>>
    /\ DoMarshalJSON(1)

NextJSON ==
    \/ JSONHeader
    \/ JSONRow
    \/ JSONKey
    \/ JSONColumn
    \/ JSONPrint
    \/ JSONMarshal

SpecJSON == InitJSON /\ [][NextJSON]_vars

----------------------------------------------------------------------------
(* SpecStyle: a table of any style gets its headers and is cloned; the      *)
(* table gets rows and cells, then the clone, and both are printed.         *)

InitAnyStyle == \E style \in AllStyles : InitStyle(style)

StyleHeader ==
    /\ ~tabs[2].live
    /\ tabs[1].Headers.len < MaxHeaders
    /\ Header(1, LabelA)

StyleClone == DoClone(1, 2)

StyleRow ==
    /\ tabs[2].live
    /\ \E t \in TabIds :
          /\ t = 1 => tabs[2].Rows = <<>>
          /\ Len(tabs[t].Rows) < MaxRows
          /\ Row(t)

StyleColumn ==
    \E t \in TabIds :
       /\ t = 1 => tabs[2].Rows = <<>>
       /\ tabs[t].Rows # <<>>
       /\ TotalCells(tabs[t]) < MaxCells
       /\ \E l \in {LabelA, LabelBQC} : Column(t, Len(tabs[t].Rows), l)

\* the table is printed, and the clone after it
StylePrint ==
    /\ tabs[2].live
    /\ Len(written) < 2
    /\ DoPrint(Len(written) + 1)

NextStyle ==
    \/ StyleHeader
    \/ StyleClone
    \/ StyleRow
    \/ StyleColumn
    \/ StylePrint

SpecStyle == InitAnyStyle /\ [][NextStyle]_vars

----------------------------------------------------------------------------
(* SpecCell: printColumn on one cell of h lines, any alignment, for a line  *)
(* of a block of H >= h lines, a column at least as wide as the cell and    *)
(* any padding; ret holds the call and what it wrote after the border.      *)

InitCell == InitStyle("Plain")

CellCall ==
    /\ ret = NoRet
    /\ \E align \in Aligns, H \in 0..MaxHeight, P \in 0..MaxPadding :
       \E h \in 0..H, line \in 0..(H - 1) :
          LET col == [Align |-> align, Data |-> NewLinesData(CellLines(h)),
                      Format |-> "FmtNone"]
              t   == [New("Plain") EXCEPT !.Padding = P]
          IN  \E W \in ColumnWidth(col)..MaxWidth :
                 /\ ret' = [fn     |-> "printColumn",
                            align  |-> align,
                            h      |-> h,
                            H      |-> H,
                            line   |-> line,
                            W      |-> W,
                            P      |-> P,
                            calls  |-> contentCalls(col, line, H),
                            out    |-> cellText(t, col, line, W, H)]
                 /\ UNCHANGED <<tabs, hcols, harr, written, op, touched, sink, arrays, threads>>

NextCell == CellCall

SpecCell == InitCell /\ [][NextCell]_vars

----------------------------------------------------------------------------
(* SpecAlias: headers are appended to a table, the table is cloned at any   *)
(* point, and headers are appended to the table and to the clone in any     *)
(* order.                                                                   *)

InitAlias == InitStyle("ASCII")

AliasHeader ==
    /\ Len(hcols) < MaxAppends
    /\ \E t \in TabIds, l \in AliasLabels : Header(t, l)

AliasClone == DoClone(1, 2)

NextAlias ==
    \/ AliasHeader
    \/ AliasClone

SpecAlias == InitAlias /\ [][NextAlias]_vars

----------------------------------------------------------------------------
(* SpecNil: one table built with HeaderData and ColumnData, whose argument  *)
(* may be the nil Data, and printed under a recover.                        *)

InitNil == \E style \in NilStyles : InitStyle(style)

NilHeader ==
    /\ ret = NoRet
    /\ tabs[1].Rows = <<>>
    /\ tabs[1].Headers.len < MaxHeaders
    /\ \E d \in NilValues : HeaderData(1, d)

NilRow ==
    /\ ret = NoRet
    /\ Len(tabs[1].Rows) < MaxRows
    /\ Row(1)

NilColumn ==
    /\ ret = NoRet
    /\ TotalCells(tabs[1]) < MaxCells
    /\ tabs[1].Rows # <<>>
    /\ \E d \in NilValues : ColumnData(1, Len(tabs[1].Rows), d)

NilPrint ==
    /\ ret = NoRet
    /\ DoPrintRecover(1)

NextNil ==
    \/ NilHeader
    \/ NilRow
    \/ NilColumn
    \/ NilPrint

SpecNil == InitNil /\ [][NextNil]_vars

----------------------------------------------------------------------------
(* SpecArray: Arrays are made and Data is appended to them in any order: a  *)
(* Lines, a Value, or an Array made later (empty or not, and appended to    *)
(* again afterwards or not).                                                *)

InitArray == InitStyle("Plain")

ArrayNew ==
    /\ Len(arrays) < MaxArrays
    /\ DoNewArray

RECURSIVE NumChildren(_)
NumChildren(arrs) ==
    IF arrs = <<>> THEN 0 ELSE Len(Head(arrs).content) + NumChildren(Tail(arrs))

ArrayAppendLeaf ==
    /\ NumChildren(arrays) < MaxChildren
    /\ \E id \in 1..Len(arrays), d \in ArrayLeaves : DoArrayAppend(id, d)

ArrayAppendArray ==
    /\ NumChildren(arrays) < MaxChildren
    /\ \E id \in 1..Len(arrays) : \E sub \in (id + 1)..Len(arrays) :
          DoArrayAppend(id, ArrData(sub))

NextArray ==
    \/ ArrayNew
    \/ ArrayAppendLeaf
    \/ ArrayAppendArray

SpecArray == InitArray /\ [][NextArray]_vars

----------------------------------------------------------------------------
(* SpecReflect: a table without headers and with no row, or with one row   *)
(* of up to two cells, on which Reflect is called once, with any flags,     *)
(* tags and value.                                                          *)

InitReflect == InitStyle("Plain")

ReflectRow ==
    /\ ret = NoRet
    /\ tabs[1].Rows = <<>>
    /\ Row(1)

ReflectColumn ==
    /\ ret = NoRet
    /\ tabs[1].Rows # <<>>
    /\ Len(tabs[1].Rows[1]) < 2
    /\ Column(1, 1, LabelA)

ReflectCall ==
    /\ ret = NoRet
    /\ \E flags \in {0, OmitEmpty}, tags \in ReflectTags,
          v \in ReflectInputs(MaxFields, MaxEntries) :
          DoReflect(1, flags, tags, v)

NextReflect ==
    \/ ReflectRow
    \/ ReflectColumn
    \/ ReflectCall

SpecReflect == InitReflect /\ [][NextReflect]_vars

----------------------------------------------------------------------------
(* SpecThreads: a table is built, and from then on is only read: two        *)
(* goroutines call Print, Width, Height or Content on it, their steps       *)
(* interleaved in any order.                                                *)

InitThreads == InitStyle("ASCII")

Unread == threads = NoThreads

ThreadsHeader ==
    /\ Unread
    /\ tabs[1].Rows = <<>>
    /\ tabs[1].Headers.len < 1
    /\ \E l \in ThreadLabels : Header(1, l)

ThreadsRow ==
    /\ Unread
    /\ Len(tabs[1].Rows) < 1
    /\ Row(1)

ThreadsColumn ==
    /\ Unread
    /\ tabs[1].Rows # <<>>
    /\ Len(tabs[1].Rows[1]) < 1
    /\ \E l \in ThreadLabels : Column(1, 1, l)

ThreadsCall == \E x \in ThreadIds, fn \in ThreadFns : ThreadCall(x, fn)

ThreadsPrint == \E x \in ThreadIds : ThreadPrint(x)

ThreadsCheck == \E x \in ThreadIds : ThreadCheck(x)

ThreadsRender == \E x \in ThreadIds : ThreadRender(x)

ThreadsStoreFirst == \E x \in ThreadIds, word \in {"tab", "data"} : ThreadStoreFirst(x, word)

ThreadsStoreSecond == \E x \in ThreadIds : ThreadStoreSecond(x)

ThreadsReturn == \E x \in ThreadIds : ThreadReturn(x)

NextThreads ==
    \/ ThreadsHeader
    \/ ThreadsRow
    \/ ThreadsColumn
    \/ ThreadsCall
    \/ ThreadsPrint
    \/ ThreadsCheck
    \/ ThreadsRender
    \/ ThreadsStoreFirst
    \/ ThreadsStoreSecond
    \/ ThreadsReturn

SpecThreads == InitThreads /\ [][NextThreads]_vars

----------------------------------------------------------------------------
(* What the properties speak of, stated without the code's loops *)

\* the lines of an output: the text before each line terminator, and the
\* unterminated rest if there is one
EmittedLines(out) ==
    LET ends   == {i \in 1..Len(out) : out[i] = NL}
        n      == Cardinality(ends)
        end(k) == IF k = 0 THEN 0
                  ELSE CHOOSE i \in ends : Cardinality({j \in ends : j < i}) = k - 1
        last   == end(n)
    IN  [k \in 1..n |-> SubSeq(out, end(k - 1) + 1, end(k) - 1)]
        \o (IF last < Len(out) THEN <<SubSeq(out, last + 1, Len(out))>> ELSE <<>>)

MaxOf(S) == IF S = {} THEN 0 ELSE CHOOSE m \in S : \A x \in S : x <= m

RECURSIVE SumSeq(_)
SumSeq(ws) == IF ws = <<>> THEN 0 ELSE Head(ws) + SumSeq(Tail(ws))

\* the table the last call was made on, its headers, and what Print wrote
LastTab == tabs[op.t]
LastHdrs == HeadersOf(LastTab, hcols, harr)
LastOut == written[Len(written)].out
LastLines == EmittedLines(LastOut)
Printed == op.name = "Print"

\* N = max(number of headers, largest number of cells in any row)
NumCols(hdrs, rows) == MaxOf({Len(hdrs)} \cup {Len(rows[r]) : r \in 1..Len(rows)})

\* width of column c: the widest of header c and of cell c of the rows that have one
ColWidth(hdrs, rows, c) ==
    MaxOf({0}
          \cup (IF c <= Len(hdrs) THEN {hdrs[c].Data.MaxWidth} ELSE {})
          \cup {rows[r][c].Data.MaxWidth : r \in {q \in 1..Len(rows) : c <= Len(rows[q])}})

\* every header and cell of the table
AllColumns(hdrs, rows) ==
    {hdrs[c] : c \in 1..Len(hdrs)}
    \cup UNION {{rows[r][c] : c \in 1..Len(rows[r])} : r \in 1..Len(rows)}

\* sum of the column widths, plus the padding of each column, plus the border glyphs
GridWidth(t, hdrs) ==
    LET B == borders(t.Borders).Body
        N == NumCols(hdrs, t.Rows)
    IN  SumSeq([c \in 1..N |-> ColWidth(hdrs, t.Rows, c)]) + N * t.Padding
        + Len(B.VL) + (N - 1) * Len(B.VM) + Len(B.VR)

\* the escape function, if there is one, changes no line of any header or cell
EscapeIdle(t, hdrs) ==
    \A col \in AllColumns(hdrs, t.Rows) :
        \A k \in 1..Len(col.Data.Lines) :
            ApplyEscape(t.Escape, col.Data.Lines[k]) = col.Data.Lines[k]

----------------------------------------------------------------------------
(* C1 *)

\* C1 as stated, for the tables that have a column: every line Print emits
\* has the width of the grid (the column widths plus the padding per column
\* plus the border glyphs), whatever the alignments and the escape function.
C1_EveryLineGridWidth ==
    Printed /\ NumCols(LastHdrs, LastTab.Rows) >= 1 =>
        LET lines == LastLines
            gw    == GridWidth(LastTab, LastHdrs)
        IN  \A k \in 1..Len(lines) : Len(lines[k]) = gw

\* C1 amended: the lines all have the width of the grid when the table has at
\* least one column, no header or cell is aligned None or has a text format,
\* and the escape function (if set) leaves every line of content unchanged.
C1_RectangularGrid ==
    (/\ Printed
     /\ NumCols(LastHdrs, LastTab.Rows) >= 1
     /\ \A col \in AllColumns(LastHdrs, LastTab.Rows) :
            col.Align # "None" /\ col.Format = "FmtNone"
     /\ EscapeIdle(LastTab, LastHdrs))
    => LET lines == LastLines
           gw    == GridWidth(LastTab, LastHdrs)
       IN  \A k \in 1..Len(lines) : Len(lines[k]) = gw

\* C1 witness: a bordered two-column table with a header of width 1 over a
\* centred cell of width 2 and height 2 has been printed (5 lines or more).
C1_Witness ==
    /\ Printed
    /\ LastTab.Borders = "Unicode"
    /\ Len(LastHdrs) = 2
    /\ \A col \in AllColumns(LastHdrs, LastTab.Rows) : col.Align = "MC"
    /\ \E r \in 1..Len(LastTab.Rows) :
          /\ Len(LastTab.Rows[r]) = 2
          /\ LastTab.Rows[r][1].Data.MaxWidth # LastTab.Rows[r][2].Data.MaxWidth
          /\ LastHdrs[1].Data.MaxWidth # LastTab.Rows[r][1].Data.MaxWidth
    /\ Len(LastLines) >= 5
    /\ \A k \in 1..Len(LastLines) : Len(LastLines[k]) = GridWidth(LastTab, LastHdrs)

----------------------------------------------------------------------------
(* C2 *)

\* C2: the widths Print computes are one per column, N = max(number of
\* headers, largest row cell count) of them, and the width of column c is the
\* maximum of 0, the width of header c and the widths of the cells c.
C2_WidthIsMax ==
    Printed =>
        LET ws == Widths(LastHdrs, LastTab.Rows)
        IN  /\ Len(ws) = NumCols(LastHdrs, LastTab.Rows)
            /\ \A c \in 1..Len(ws) : ws[c] = ColWidth(LastHdrs, LastTab.Rows, c)
            /\ Len(borders(LastTab.Borders).Header.HT) > 0 /\ Len(ws) > 0
               => Len(LastLines[1]) = SumSeq(ws) + Len(ws) * LastTab.Padding + Len(ws) + 1

\* C2 witness: printed in a bordered style, a row with more cells than there
\* are headers, and a first column whose header is wider than its cell.
C2_Witness ==
    /\ Printed
    /\ LastTab.Borders = "ASCII"
    /\ Len(LastHdrs) = 1
    /\ Len(LastTab.Rows) = 1
    /\ Len(LastTab.Rows[1]) = 2
    /\ LastHdrs[1].Data.MaxWidth > LastTab.Rows[1][1].Data.MaxWidth
    /\ Widths(LastHdrs, LastTab.Rows) = <<2, 1>>
    /\ Len(LastLines[1]) = 10

----------------------------------------------------------------------------
(* The layout of the emitted lines *)

HasTop(t) == Len(borders(t.Borders).Header.HT) > 0
HasMid(t) == Len(borders(t.Borders).Header.HM) > 0
HasBottom(t) == Len(borders(t.Borders).Body.HB) > 0
Bordered(t) == HasTop(t) /\ HasMid(t) /\ HasBottom(t)

B2N(b) == IF b THEN 1 ELSE 0

\* the height of a header or row block: the max height of its cells
BlockHeight(cols) == MaxOf({Len(cols[c].Data.Lines) : c \in 1..Len(cols)})

\* the number of lines emitted before the first line of row r
RowStart(t, hdrs, r) ==
    B2N(HasTop(t)) + BlockHeight(hdrs) + B2N(HasMid(t))
    + SumSeq([q \in 1..(r - 1) |-> BlockHeight(t.Rows[q])])

\* the number of lines of the whole output of a table with a column
LineCount(t, hdrs) ==
    RowStart(t, hdrs, Len(t.Rows) + 1) + B2N(HasBottom(t))

RECURSIVE TrimSpaces(_)
TrimSpaces(s) ==
    IF s # <<>> /\ s[1] = SP THEN TrimSpaces(Tail(s))
    ELSE IF s # <<>> /\ s[Len(s)] = SP THEN TrimSpaces(SubSeq(s, 1, Len(s) - 1))
    ELSE s

\* the cell slots of a header or body line of a style whose vertical glyphs
\* VL, VM, VR are one and the same rune
Slots(line, vm) == Split(SubSeq(line, 2, Len(line) - 1), vm)

MadeOf(line, glyphs) == \A k \in 1..Len(line) : <<line[k]>> \in glyphs

----------------------------------------------------------------------------
(* C3 *)

Ragged(t, hdrs) == \E r \in 1..Len(t.Rows) : Len(t.Rows[r]) # Len(hdrs)

\* line `line` (1-based) of a block, with N slots, the slot of a missing
\* header or cell being spaces at the width of its column plus the padding
SlotLine(t, hdrs, isHdr, cols, line) ==
    LET N == NumCols(hdrs, t.Rows)
        B == borders(t.Borders)
    IN  Concat([idx \in 1..N |->
                   cellBorder(t, isHdr, idx - 1)
                   \o (IF idx <= Len(cols)
                       THEN cellText(t, cols[idx], line - 1,
                                     ColWidth(hdrs, t.Rows, idx), BlockHeight(cols))
                       ELSE Rep(ColWidth(hdrs, t.Rows, idx) + t.Padding, <<SP>>))])
        \o (IF isHdr THEN B.Header.VR ELSE B.Body.VR)

\* C3: for a table with a row of fewer or more cells than there are headers,
\* Print emits every header line and every body line with exactly
\* N = max(headers, largest row) slots, and the slot of a missing header or
\* cell holds spaces only, over the full width of its column.
C3_RaggedRows ==
    Printed /\ Ragged(LastTab, LastHdrs) =>
        LET t     == LastTab
            hdrs  == LastHdrs
            lines == LastLines
            top   == B2N(HasTop(t))
            vm    == borders(t.Borders).Body.VM
            N     == NumCols(hdrs, t.Rows)
        IN  /\ Len(lines) = LineCount(t, hdrs)
            /\ \A k \in 1..BlockHeight(hdrs) :
                  lines[top + k] = SlotLine(t, hdrs, TRUE, hdrs, k)
            /\ \A r \in 1..Len(t.Rows) : \A k \in 1..BlockHeight(t.Rows[r]) :
                  LET line == lines[RowStart(t, hdrs, r) + k]
                  IN  /\ line = SlotLine(t, hdrs, FALSE, t.Rows[r], k)
                      /\ vm \in {<<"|">>, <<"u2502">>, <<"u2503">>} =>
                            Len(Slots(line, vm[1])) = N

\* C3 witness: printed with two headers, a row of one cell and a row of no
\* cell; the second slot of the body line is blank.
C3_Witness ==
    /\ Printed
    /\ LastTab.Borders = "UnicodeLight"
    /\ Len(LastHdrs) = 2
    /\ Len(LastTab.Rows) = 2
    /\ Len(LastTab.Rows[1]) = 1
    /\ Len(LastTab.Rows[2]) = 0
    /\ LET line == LastLines[RowStart(LastTab, LastHdrs, 1) + 1]
       IN  /\ Len(Slots(line, "u2502")) = 2
           /\ Slots(line, "u2502")[2]
                 = Rep(LastHdrs[2].Data.MaxWidth + DefaultPadding, <<SP>>)

----------------------------------------------------------------------------
(* C4 *)

TopAligns == {"TL", "TC", "TR", "None"}

\* C4: a table with a header and a row, in a bordered style, is emitted as one
\* top border line, the header lines (as many as the tallest header has), one
\* separator line, for each row in order as many lines as its tallest cell
\* has, and one bottom border line; line j of a row's block carries line j of
\* each top-aligned cell of the row, and blanks if the cell has no line j.
C4_LineOrder ==
    Printed /\ Bordered(LastTab) /\ Len(LastHdrs) >= 1 /\ Len(LastTab.Rows) >= 1 =>
        LET t     == LastTab
            hdrs  == LastHdrs
            lines == LastLines
            B     == borders(t.Borders)
            hh    == BlockHeight(hdrs)
            n     == Len(lines)
        IN  /\ n = 1 + hh + 1 + SumSeq([r \in 1..Len(t.Rows) |-> BlockHeight(t.Rows[r])]) + 1
            /\ MadeOf(lines[1], {B.Header.TL, B.Header.HT, B.Header.TM, B.Header.TR})
            /\ \A k \in 2..(hh + 1) :
                  /\ <<Head(lines[k])>> = B.Header.VL
                  /\ Len(Slots(lines[k], B.Header.VM[1])) = NumCols(hdrs, t.Rows)
            /\ MadeOf(lines[hh + 2],
                      {B.Header.ML, B.Header.HM, B.Header.MM, B.Header.MR})
            /\ MadeOf(lines[n], {B.Body.BL, B.Body.HB, B.Body.BM, B.Body.BR})
            /\ \A r \in 1..Len(t.Rows) : \A j \in 1..BlockHeight(t.Rows[r]) :
                  LET line  == lines[RowStart(t, hdrs, r) + j]
                      slots == Slots(line, B.Body.VM[1])
                  IN  /\ <<Head(line)>> = B.Body.VL
                      /\ \A c \in 1..Len(t.Rows[r]) :
                            t.Rows[r][c].Align \in TopAligns =>
                               TrimSpaces(slots[c])
                                  = IF j <= Len(t.Rows[r][c].Data.Lines)
                                    THEN t.Rows[r][c].Data.Lines[j] ELSE <<>>

\* C4 witness: printed in the Unicode style, one header, then a row whose
\* second cell is the taller one, then a second row: 1 + 1 + 1 + 2 + 1 + 1 lines.
C4_Witness ==
    /\ Printed
    /\ LastTab.Borders = "Unicode"
    /\ Len(LastHdrs) = 1
    /\ LastHdrs[1].Align = "TL"
    /\ Len(LastTab.Rows) = 2
    /\ Len(LastTab.Rows[1]) = 2
    /\ Len(LastTab.Rows[1][1].Data.Lines) = 1
    /\ Len(LastTab.Rows[1][2].Data.Lines) = 2
    /\ Len(LastTab.Rows[2]) = 0
    /\ Len(LastLines) = 6
    /\ TrimSpaces(Slots(LastLines[5], "u2502")[1]) = <<>>
    /\ TrimSpaces(Slots(LastLines[5], "u2502")[2]) = <<"c">>

----------------------------------------------------------------------------
(* C5 *)

\* C5: a table with headers and no rows, in a bordered style, is emitted as
\* the top border, the header lines and a bottom border drawn with the
\* header's glyphs: no separator line, no body line.
C5_HeaderOnly ==
    Printed /\ Bordered(LastTab) /\ Len(LastHdrs) >= 1 /\ LastTab.Rows = <<>> =>
        LET B == borders(LastTab.Borders).Header
        IN  /\ Len(LastLines) = BlockHeight(LastHdrs) + 2
            /\ MadeOf(LastLines[Len(LastLines)], {B.BL, B.HB, B.BM, B.BR})

----------------------------------------------------------------------------
(* C6 *)

\* C6: a Print call changes nothing of any table (headers, rows, cells,
\* alignments, formats, padding, borders), and when it follows a Print call
\* on the same table with no builder call in between, it writes the same
\* bytes as that call.
C6_PrintIdempotent ==
    [][op'.name = "Print" =>
          /\ [x \in TabIds |-> [tabs'[x] EXCEPT !.asData = NilData]]
                = [x \in TabIds |-> [tabs[x] EXCEPT !.asData = NilData]]
          /\ hcols' = hcols
          /\ harr' = harr
          /\ (op.name = "Print" /\ op.t = op'.t) =>
                written'[Len(written')].out = written[Len(written)].out]_vars

\* C6 witness: a table with a header, a row with a right-aligned bold cell
\* and a row without cells has been printed twice in a row, with the same
\* output of three lines.
C6_Witness ==
    /\ Printed
    /\ Len(written) = 2
    /\ written[1].t = written[2].t
    /\ written[1].out = written[2].out
    /\ LastTab.Borders = "Github"
    /\ Len(LastHdrs) = 1
    /\ Len(LastTab.Rows) = 2
    /\ Len(LastTab.Rows[1]) = 1
    /\ LastTab.Rows[1][1].Align = "MR"
    /\ LastTab.Rows[1][1].Format = "FmtBold"
    /\ LastTab.Rows[2] = <<>>
    /\ Len(LastLines) = 3

----------------------------------------------------------------------------
(* C7 *)

\* the lines of the output of the Print call just made
PrintedLines == EmittedLines(written[Len(written)].out)

\* C7: once a table has been rendered as Data (Width, Height, Content or
\* String), the Data it holds never changes again, whatever Header, Row,
\* Column, SetAlign or SetFormat call follows, and a later call as Data
\* renders nothing; a Print call writes as many lines as the headers and
\* rows of the table have at the call and, in a style with a top border, a
\* first line as wide as the columns of the table are at the call.
C7_CachedOnce ==
    [][/\ \A t \in TabIds :
             tabs[t].asData.kind # "nil" => tabs'[t].asData = tabs[t].asData
       /\ op'.name = "Data" /\ tabs[op'.t].asData.kind # "nil" => ~op'.fresh
       /\ op'.name = "Print" =>
             LET t     == tabs'[op'.t]
                 hdrs  == HeadersOf(t, hcols', harr')
                 lines == EmittedLines(written'[Len(written')].out)
             IN  NumCols(hdrs, t.Rows) >= 1 =>
                    /\ Len(lines) = LineCount(t, hdrs)
                    /\ HasTop(t) => Len(lines[1]) = GridWidth(t, hdrs)]_vars

\* C7 witness: the table was read as Data, then changed (a column was made
\* and aligned), then printed and read as Data again: the Data is still the
\* first rendering, which is not what Print wrote.
C7_Witness ==
    /\ op.name = "Data"
    /\ ~op.fresh
    /\ written # <<>>
    /\ LastTab.Borders = "ASCII"
    /\ LastTab.asData.Lines # PrintedLines
    /\ \E col \in AllColumns(LastHdrs, LastTab.Rows) : col.Align = "MR"
    /\ Len(LastTab.Rows) >= 1

----------------------------------------------------------------------------
(* C8 *)

\* C8: when a table is printed and then read as Data for the first time,
\* with no change in between, Height() is the number of lines Print wrote,
\* Content(i) is line i of them and Width() the width of the widest of them.
C8_DataViewIsPrintOutput ==
    (op.name = "Data" /\ op.fresh /\ written # <<>>) =>
        LET d == LastTab.asData
        IN  /\ LinesHeight(d) = Len(PrintedLines)
            /\ \A i \in 0..(LinesHeight(d) - 1) :
                  i < Len(PrintedLines) /\ LinesContent(d, i) = PrintedLines[i + 1]
            /\ LinesWidth(d)
                  = MaxOf({Len(PrintedLines[k]) : k \in 1..Len(PrintedLines)})

----------------------------------------------------------------------------
(* C9 *)

\* the cells of table t, as references
CellRefs(t) ==
    UNION {{CellRef(t, r, c) : c \in 1..Len(tabs[t].Rows[r])}
              : r \in 1..Len(tabs[t].Rows)}

\* C9 as stated: every cell on which no setter was called has the
\* alignment and format of the header of its index, and TL and no format if
\* there is no such header.
C9_CellsFollowHeaders ==
    \A ref \in CellRefs(1) :
        ref \notin touched =>
            LET cell == tabs[1].Rows[ref.r][ref.c]
                hdrs == HeadersOf(tabs[1], hcols, harr)
            IN  IF ref.c <= Len(hdrs)
                THEN cell.Align = hdrs[ref.c].Align /\ cell.Format = hdrs[ref.c].Format
                ELSE cell.Align = "TL" /\ cell.Format = "FmtNone"

\* C9 amended: a cell is made with the alignment and format its header has
\* at that call (TL and no format if the table has no header of its index
\* at that call); afterwards a cell changes only by a setter called on it,
\* which changes that one attribute of that cell and no header, and a setter
\* called on a header, or a new header, changes no cell.
C9_CellsTakeHeaderAtCreation ==
    [][/\ op'.name = "Column" =>
             LET cell == tabs'[op'.t].Rows[op'.r][op'.c]
                 hdrs == HeadersOf(tabs[op'.t], hcols, harr)
             IN  /\ hcols' = hcols
                 /\ IF op'.c <= Len(hdrs)
                    THEN /\ cell.Align = hdrs[op'.c].Align
                         /\ cell.Format = hdrs[op'.c].Format
                    ELSE cell.Align = "TL" /\ cell.Format = "FmtNone"
       /\ \A ref \in CellRefs(1) :
             LET old == tabs[1].Rows[ref.r][ref.c]
                 new == tabs'[1].Rows[ref.r][ref.c]
             IN  \/ new = old
                 \/ /\ op'.name = "SetAlign"
                    /\ CellRef(op'.t, op'.r, op'.c) = ref
                    /\ new = [old EXCEPT !.Align = new.Align]
                    /\ hcols' = hcols
                 \/ /\ op'.name = "SetFormat"
                    /\ CellRef(op'.t, op'.r, op'.c) = ref
                    /\ new = [old EXCEPT !.Format = new.Format]
                    /\ hcols' = hcols]_vars

\* C9 witness: a cell has just been made under a header that had been given
\* MR and bold, and has both; the cell is the second Column object.
C9_Witness ==
    /\ op.name = "Column"
    /\ op.c = 1
    /\ tabs[1].Headers.len = 1
    /\ hcols[1].Align = "MR"
    /\ hcols[1].Format = "FmtBold"
    /\ tabs[1].Rows[op.r][1].Align = "MR"
    /\ tabs[1].Rows[op.r][1].Format = "FmtBold"
    /\ touched = {}

----------------------------------------------------------------------------
(* C10 *)

\* C10: Clone makes a table with the headers of the original (the same
\* columns, attributes included), no row and no Data held, and leaves the
\* original as it is; afterwards a Row or Column call on one of the two
\* changes no row of the other, and reading one as Data changes nothing of
\* the Data the other holds.
C10_CloneSharesNoRows ==
    [][/\ op'.name = "Clone" =>
             /\ HeadersOf(tabs'[2], hcols', harr') = HeadersOf(tabs[1], hcols, harr)
             /\ tabs'[2].Rows = <<>>
             /\ tabs'[2].asData = NilData
             /\ tabs'[2].Padding = tabs[1].Padding
             /\ tabs'[1] = tabs[1]
       /\ op'.name \in {"Row", "Column"} =>
             \A t \in TabIds \ {op'.t} : tabs'[t].Rows = tabs[t].Rows
       /\ op'.name = "Data" =>
             /\ \A t \in TabIds \ {op'.t} : tabs'[t].asData = tabs[t].asData
             /\ op'.fresh <=> tabs[op'.t].asData = NilData]_vars

\* C10 witness: the original, read as Data before, was cloned with its
\* header; the clone got a row with a cell, and then the original a second
\* row: the clone has one row, the original two.
C10_Witness ==
    /\ op.name = "Row"
    /\ op.t = 1
    /\ tabs[2].live
    /\ tabs[2].Headers.len = 1
    /\ tabs[1].Headers.len = 1
    /\ Len(tabs[2].Rows) = 1
    /\ Len(tabs[2].Rows[1]) = 1
    /\ tabs[1].Rows = <<<<>>, <<>>>>
    /\ tabs[1].asData # NilData
    /\ tabs[2].asData = NilData

----------------------------------------------------------------------------
(* C12 *)

\* how many times the rune x occurs in s
Occurrences(s, x) == Cardinality({i \in 1..Len(s) : s[i] = x})

RECURSIVE Undouble(_)
\* s with every pair of adjacent double quotes, taken from the left, made one
Undouble(s) ==
    IF s = <<>> THEN <<>>
    ELSE IF Len(s) >= 2 /\ s[1] = QUOTE /\ s[2] = QUOTE
    THEN <<QUOTE>> \o Undouble(SubSeq(s, 3, Len(s)))
    ELSE <<Head(s)>> \o Undouble(Tail(s))

\* C12: escapeCSV returns its argument unchanged if the argument holds
\* neither a double quote nor a newline; otherwise the result is the argument
\* with every double quote doubled, between two double quotes: its length is
\* len + 2 + the number of quotes, and un-doubling its inside gives the
\* argument back.
C12_EscapeCSV ==
    ret.fn = "escapeCSV" =>
        LET val   == ret.arg
            out   == ret.out
            clean == \A i \in 1..Len(val) : val[i] \notin {QUOTE, NL}
        IN  IF clean THEN out = val
            ELSE /\ Len(out) = Len(val) + 2 + Occurrences(val, QUOTE)
                 /\ out[1] = QUOTE
                 /\ out[Len(out)] = QUOTE
                 /\ Undouble(SubSeq(out, 2, Len(out) - 1)) = val
                 /\ Occurrences(out, QUOTE) = 2 + 2 * Occurrences(val, QUOTE)

\* a string with a quote next to a newline went through escapeCSV
C12_Witness ==
    /\ ret.fn = "escapeCSV"
    /\ ret.arg = <<"a", QUOTE, NL>>
    /\ ret.out = <<QUOTE, "a", QUOTE, QUOTE, NL, QUOTE>>

----------------------------------------------------------------------------
(* C20 *)

\* C20: in every grid style and for every table, the table without headers
\* and rows included, what Print writes is a sequence of complete lines: it
\* is empty or ends with a newline, and for an empty table in Plain style it
\* is empty.
C20_CompleteLines ==
    Printed =>
        LET out == written[Len(written)].out
        IN  /\ out = <<>> \/ out[Len(out)] = NL
            /\ (LastTab = New("Plain") /\ LastHdrs = <<>>) => out = <<>>

----------------------------------------------------------------------------
(* C13 *)

\* the commas of a record that stand outside double quotes
UnquotedCommas(line) ==
    Cardinality({i \in 1..Len(line) :
                    /\ line[i] = ","
                    /\ Cardinality({j \in 1..(i - 1) : line[j] = QUOTE}) % 2 = 0})

\* C13: CSV output is RFC-4180 style: every record ends with CRLF, fields
\* are separated by a comma, and a field holding a comma, a double quote or
\* a newline is written between double quotes, so that every record has as
\* many commas outside quotes as the table has columns, less one.
C13_RFC4180 ==
    Printed /\ LastTab.Borders = "CSV" /\ NumCols(LastHdrs, LastTab.Rows) >= 1 =>
        LET out   == written[Len(written)].out
            lines == EmittedLines(out)
            n     == NumCols(LastHdrs, LastTab.Rows)
        IN  /\ out = <<>> \/ out[Len(out)] = NL
            /\ \A k \in 1..Len(lines) :
                  /\ lines[k] # <<>>
                  /\ lines[k][Len(lines[k])] = CR
                  /\ UnquotedCommas(lines[k]) = n - 1

----------------------------------------------------------------------------
(* C14 *)

RECURSIVE JoinFields(_, _)
\* the fields with sep between them
JoinFields(fields, sep) ==
    IF fields = <<>> THEN <<>>
    ELSE IF Len(fields) = 1 THEN fields[1]
    ELSE fields[1] \o sep \o JoinFields(Tail(fields), sep)

\* the line of a cell that its vertical alignment puts on line j (from 1) of
\* a block of k lines, <<>> if it puts none there
PlacedLine(col, j, k) ==
    LET h   == Len(col.Data.Lines)
        off == CASE col.Align \in {"ML", "MC", "MR"} -> GoDiv(k - h, 2)
                 [] col.Align \in {"BL", "BC", "BR"} -> k - h
                 [] OTHER -> 0
    IN  IF j - off \in 1..h THEN col.Data.Lines[j - off] ELSE <<>>

\* C14: under the CSV style with every header aligned TL, MC or BR, a row
\* whose tallest cell has k lines gives exactly k records; record j holds,
\* for each cell, the line its vertical alignment places on block line j
\* (quoted as CSV asks) and an empty field where there is none, and no field
\* holds padding spaces.
C14_RecordsPerLine ==
    /\ Printed
    /\ LastTab.Borders = "CSV"
    /\ Len(LastHdrs) >= 1
    /\ \A c \in 1..Len(LastHdrs) : LastHdrs[c].Align \in CSVAligns
    /\ \A r \in 1..Len(LastTab.Rows) : Len(LastTab.Rows[r]) <= Len(LastHdrs)
    =>
        LET t     == LastTab
            hdrs  == LastHdrs
            lines == EmittedLines(written[Len(written)].out)
            n     == Len(hdrs)
        IN  /\ Len(lines) = LineCount(t, hdrs)
            /\ \A r \in 1..Len(t.Rows) :
                  LET row == t.Rows[r]
                      k   == BlockHeight(row)
                  IN  \A j \in 1..k :
                         lines[RowStart(t, hdrs, r) + j]
                            = JoinFields([c \in 1..n |->
                                            IF c <= Len(row)
                                            THEN escapeCSV(PlacedLine(row[c], j, k))
                                            ELSE <<>>],
                                         <<",">>)
                              \o <<CR>>

----------------------------------------------------------------------------
(* C19 *)

\* the display columns a string takes on a terminal: two for a wide rune
DisplayWidth(s) ==
    SumSeq([i \in 1..Len(s) |-> IF s[i] \in WideRunes THEN 2 ELSE 1])

\* C19: widths are display columns: the Width() of the Data of every header
\* and cell counts a wide rune as two, and every line of a printed table
\* takes the same number of display columns.
C19_DisplayColumns ==
    Printed /\ NumCols(LastHdrs, LastTab.Rows) >= 1 =>
        LET lines == EmittedLines(written[Len(written)].out)
            cols  == AllColumns(LastHdrs, LastTab.Rows)
        IN  /\ \A col \in cols :
                  DataWidth(col.Data)
                     = MaxOf({0} \cup {DisplayWidth(col.Data.Lines[i])
                                          : i \in 1..Len(col.Data.Lines)})
            /\ \A k \in 1..Len(lines) :
                  DisplayWidth(lines[k]) = DisplayWidth(lines[1])

----------------------------------------------------------------------------
(* C18 *)

\* what the sink holds: the Write calls that succeeded
SinkHolds == Concat(SubSeq(sink.calls, 1, IF sink.room < Len(sink.calls)
                                          THEN sink.room ELSE Len(sink.calls)))

\* a Write call of the last Print failed
WriteFailed == ret.fn = "Print" /\ Len(sink.calls) > sink.room

\* C18: when a write to the sink fails during Print, Print makes no further
\* write attempt (the failed call is its last), and the failure comes back to
\* the caller; what was written before stays in the sink.
C18_AbortOnWriteFailure ==
    WriteFailed =>
        /\ Len(sink.calls) = sink.room + 1
        /\ ret.values # <<>>
        /\ SinkHolds = Concat(SubSeq(sink.calls, 1, sink.room))

----------------------------------------------------------------------------
(* C15 *)

\* a row of the first table has fewer than two cells
Malformed == \E r \in 1..Len(tabs[1].Rows) : Len(tabs[1].Rows[r]) < 2

\* C15: JSON encoding of a table one of whose rows has fewer than two cells
\* fails as a whole: MarshalJSON returns an error and no bytes, and Print in
\* the JSON style writes nothing to the sink.
C15_MalformedFailsWhole ==
    Malformed =>
        /\ ret.fn = "MarshalJSON" => ret.err # <<>> /\ ret.bytes = <<>>
        /\ written # <<>> => written[Len(written)].out = <<>>

----------------------------------------------------------------------------
(* C16 *)

RECURSIVE ObjectOf(_, _)

\* what stands for a cell after the first: the object of a nested table, the
\* text of any other cell
CellValue(cell, ts) ==
    IF cell.Data.kind = "Tabulate" THEN JObj(ObjectOf(ts[cell.Data.id].Rows, ts))
    ELSE JStr(DataString(cell.Data))

\* what stands for the cells of a row after the first: the one cell, or the
\* array of them
RowValue(row, ts) ==
    IF Len(row) = 2 THEN CellValue(row[2], ts)
    ELSE JArr([i \in 1..(Len(row) - 1) |-> CellValue(row[i + 1], ts)])

\* the text of the first cell of a row
RowKey(row) == DataString(row[1].Data)

\* the object of a table all of whose rows have two cells or more: its keys
\* are the first cells, the value of a key is that of the last row with it
ObjectOf(rows, ts) ==
    [k \in {RowKey(rows[r]) : r \in 1..Len(rows)} |->
        LET last == CHOOSE r \in 1..Len(rows) :
                       /\ RowKey(rows[r]) = k
                       /\ \A q \in (r + 1)..Len(rows) : RowKey(rows[q]) # k
        IN  RowValue(rows[last], ts)]

\* the call of MarshalJSON on the first table gave bytes
Marshalled == ret.fn = "MarshalJSON" /\ ret.err = <<>>

\* C16 as stated: the encoding is one object in which, for every row, the
\* text of the first cell is a key whose value stands for the other cells of
\* that row.
C16_EveryRowIsAMember ==
    Marshalled =>
        LET content == marshalJSON(tabs[1], tabs).content
            rows    == tabs[1].Rows
        IN  /\ ret.bytes = jsonEncode(JObj(content))
            /\ \A r \in 1..Len(rows) :
                  /\ RowKey(rows[r]) \in DOMAIN content
                  /\ content[RowKey(rows[r])] = RowValue(rows[r], tabs)

\* C16: the encoding is one object whose keys are the texts of the first
\* cells of the rows; the value of a key stands for the other cells of the
\* last row with that key: the one cell if the row has two cells, the array
\* of them in column order if it has more.  Headers, alignment, format and
\* padding do not show; a table without rows is encoded as {}.
C16_LastRowOfAKeyIsAMember ==
    Marshalled =>
        LET content == marshalJSON(tabs[1], tabs).content
            rows    == tabs[1].Rows
        IN  /\ content = ObjectOf(rows, tabs)
            /\ ret.bytes = jsonEncode(JObj(ObjectOf(rows, tabs)))
            /\ Head(ret.bytes) = "{" /\ ret.bytes[Len(ret.bytes)] = "}"
            /\ rows = <<>> => ret.bytes = <<"{", "}">>

\* two rows with the same key were marshalled, the second one shows; the
\* table has a header
C16_Witness ==
    /\ Marshalled
    /\ tabs[1].Headers.len = 1
    /\ Len(tabs[1].Rows) = 2
    /\ Len(tabs[1].Rows[1]) = 2
    /\ RowKey(tabs[1].Rows[1]) = LabelA
    /\ tabs[1].Rows[1][2].Data = NewLines(LabelLines)
    /\ RowKey(tabs[1].Rows[2]) = LabelA
    /\ tabs[1].Rows[2][2].Data = NewValue(GoBool(FALSE))
    /\ ret.bytes = <<"{", QUOTE, "a", QUOTE, ":",
                     QUOTE, "f", "a", "l", "s", "e", QUOTE, "}">>

----------------------------------------------------------------------------
(* C17 *)

RECURSIVE ScalarsRaw(_, _)

\* the JSON text of a cell with booleans and numbers written raw, texts as
\* strings and a nested table as an object (of its only row, if it has one)
ScalarsRaw(cell, ts) ==
    CASE cell.Data.kind = "Value" -> cell.Data.string
      [] cell.Data.kind = "Tabulate" ->
            LET rows == ts[cell.Data.id].Rows
            IN  <<"{">>
                \o JoinFields([r \in 1..Len(rows) |->
                                  <<QUOTE>> \o jsonString(RowKey(rows[r])) \o <<QUOTE, ":">>
                                  \o ScalarsRaw(rows[r][2], ts)],
                              <<",">>)
                \o <<"}">>
      [] OTHER -> <<QUOTE>> \o jsonString(DataString(cell.Data)) \o <<QUOTE>>

\* sub is a part of s
Contains(s, sub) ==
    \E i \in 0..(Len(s) - Len(sub)) : SubSeq(s, i + 1, i + Len(sub)) = sub

\* C17: in the JSON encoding a cell made by NewValue from a boolean or a
\* number is written as the raw JSON value, a text cell as a JSON string
\* (a text of several lines as one string with \n in it) and a cell that is
\* a table as a nested object.  Stated for the rows of two cells, nested
\* tables of rows of two cells, keys that no other row has.
C17_ScalarsRaw ==
    Marshalled =>
        \A r \in 1..Len(tabs[1].Rows) :
            LET row == tabs[1].Rows[r]
            IN  /\ Len(row) = 2
                /\ \A q \in 1..Len(tabs[1].Rows) : q # r => RowKey(tabs[1].Rows[q]) # RowKey(row)
                => Contains(ret.bytes,
                            <<QUOTE>> \o jsonString(RowKey(row)) \o <<QUOTE, ":">>
                            \o ScalarsRaw(row[2], tabs))

----------------------------------------------------------------------------
(* C11 *)

\* C11: a clone keeps the style of the table, whatever the style: once the
\* clone has been given the same rows as the table, the two print the same
\* output.
C11_CloneKeepsStyle ==
    /\ Len(written) = 2
    /\ tabs[2].live
    /\ tabs[1].Rows = tabs[2].Rows
    => written[1].out = written[2].out

----------------------------------------------------------------------------
(* C24 *)

\* a string without the spaces around it
Unpadded(s) == TrimSpaces(s)

\* C24: a cell of h lines in a block of H >= h lines shows its line k on
\* block line k under a top alignment or None, on block line k + (H-h)/2
\* (integer division) under a middle alignment and on block line k + (H-h)
\* under a bottom alignment; every other block line of the cell is blank,
\* and the cell is never asked for a line of negative index.
C24_VerticalPlacement ==
    ret.fn = "printColumn" =>
        LET off == CASE ret.align \in {"ML", "MC", "MR"} -> (ret.H - ret.h) \div 2
                     [] ret.align \in {"BL", "BC", "BR"} -> ret.H - ret.h
                     [] OTHER -> 0
            k   == ret.line + 1 - off
        IN  /\ Unpadded(ret.out) = IF k \in 1..ret.h THEN CellLine(k) ELSE <<>>
            /\ \A i \in 1..Len(ret.calls) : ret.calls[i] >= 0
            /\ k < 1 => ret.calls = <<>>

\* a cell of one line, middle-aligned in a block of three: on line 1 only;
\* and in a block of two it is on line 0
C24_Witness ==
    /\ ret.fn = "printColumn"
    /\ ret.align = "MC"
    /\ ret.h = 1
    /\ ret.H = 3
    /\ ret.line = 1
    /\ Unpadded(ret.out) = <<"1">>

----------------------------------------------------------------------------
(* C25 *)

\* C25: a content of width w in a column of width W >= w of a table with
\* padding P is written as lPad spaces, the content and rPad spaces with
\* lPad + w + rPad = W + P, where a left alignment has lPad = P/2, a right
\* alignment rPad = P - P/2 and a centre alignment lPad = P/2 + (W-w)/2
\* (integer division); under None there are no spaces at all.
C25_HorizontalPlacement ==
    ret.fn = "printColumn" =>
        LET content == Unpadded(ret.out)
            w       == Len(content)
            W       == ret.W
            P       == ret.P
            lPad    == CASE ret.align = "None" -> 0
                         [] ret.align \in {"TL", "ML", "BL"} -> P \div 2
                         [] ret.align \in {"TC", "MC", "BC"} -> P \div 2 + (W - w) \div 2
                         [] OTHER -> W + P - w - (P - P \div 2)
            rPad    == IF ret.align = "None" THEN 0 ELSE W + P - w - lPad
        IN  /\ ret.out = Rep(lPad, <<SP>>) \o content \o Rep(rPad, <<SP>>)
            /\ Len(ret.out) = IF ret.align = "None" THEN w ELSE W + P
            /\ lPad >= 0 /\ rPad >= 0

\* a content of width 1 centred in a column of width 2 with padding 3: one
\* space on the left, three on the right
C25_Witness ==
    /\ ret.fn = "printColumn"
    /\ ret.align = "TC"
    /\ ret.W = 2
    /\ ret.P = 3
    /\ ret.out = <<SP, "1", SP, SP, SP>>

----------------------------------------------------------------------------
(* C27 *)

\* C27: a table with rows (holding at least one cell) and no headers, in a
\* bordered style, is emitted as one top border line drawn with the body's
\* glyphs, the lines of the rows and one bottom border line: no header line
\* and no header/body separator line.
C27_BodyOnly ==
    Printed /\ Bordered(LastTab) /\ Len(LastHdrs) = 0 /\ TotalCells(LastTab) >= 1 =>
        LET t     == LastTab
            B     == borders(t.Borders).Body
            lines == LastLines
        IN  /\ Len(lines)
                 = 1 + SumSeq([r \in 1..Len(t.Rows) |-> BlockHeight(t.Rows[r])]) + 1
            /\ MadeOf(lines[1], {B.TL, B.HT, B.TM, B.TR})
            /\ MadeOf(lines[Len(lines)], {B.BL, B.HB, B.BM, B.BR})

----------------------------------------------------------------------------
(* C30 *)

\* the header columns of a table, as the objects its Headers slice points to
HeaderIds(t, arrs) == [k \in 1..t.Headers.len |-> arrs[t.Headers.arr][k]]

\* C30: a Clone call gives the clone the header list of the original, and
\* every later Header call on the table or on the clone appends the new
\* header to the list of the table it is called on and leaves the list of
\* the other table as it was.
C30_HeaderListsApart ==
    [][/\ op'.name = "Clone" =>
             /\ HeaderIds(tabs'[2], harr') = HeaderIds(tabs[1], harr)
             /\ HeaderIds(tabs'[1], harr') = HeaderIds(tabs[1], harr)
       /\ op'.name = "Header" =>
             /\ HeaderIds(tabs'[op'.t], harr')
                   = Append(HeaderIds(tabs[op'.t], harr), op'.c)
             /\ \A u \in TabIds \ {op'.t} :
                   HeaderIds(tabs'[u], harr') = HeaderIds(tabs[u], harr)]_vars

----------------------------------------------------------------------------
(* C29 *)

\* C29: Print returns normally for every table built with HeaderData, Row
\* and ColumnData, a nil Data argument included, and what it writes is the
\* table with every header or cell of nil Data shown as a slot of width 0
\* and height 0.
C29_PrintTotal ==
    ret.fn = "Print" =>
        /\ ~ret.panicked
        /\ LastOut = TabulatePrint(LastTab, LastHdrs)

----------------------------------------------------------------------------
(* C26 *)

RECURSIVE SumHeights(_, _)
\* the sum of the heights the Data of ds have now
SumHeights(arrs, ds) ==
    IF ds = <<>> THEN 0 ELSE HeapHeight(arrs, Head(ds)) + SumHeights(arrs, Tail(ds))

\* the child of Array id whose range of lines holds line i (0-based), the
\* heights being the ones the children have now; 0 if there is none
OwnerOf(arrs, id, i) ==
    LET cs == arrs[id].content
        S  == {k \in 1..Len(cs) :
                  /\ SumHeights(arrs, SubSeq(cs, 1, k - 1)) <= i
                  /\ i < SumHeights(arrs, SubSeq(cs, 1, k))}
    IN  IF S = {} THEN 0 ELSE CHOOSE k \in S : TRUE

\* line i of a child, whatever its variant
ChildLine(arrs, d, i) ==
    IF d.kind = "Array" THEN ArrayContent(arrs, d.id, i) ELSE DataContent(d, i)

\* C26: after any Append calls, every Array has as Height() the sum of the
\* heights of its children, as Width() the largest width of a child (0 if
\* it has none), as Content(i), 0 <= i < Height(), line
\* i - (heights of the children before) of the child whose range holds i,
\* and as Content(i), i >= Height(), the empty string.
C26_ArrayIsConcatenation ==
    \A id \in 1..Len(arrays) :
        LET cs == arrays[id].content
            H  == ArrayHeight(arrays, id)
        IN  /\ H = SumHeights(arrays, cs)
            /\ ArrayWidth(arrays, id)
                  = MaxOf({HeapWidth(arrays, cs[k]) : k \in 1..Len(cs)})
            /\ \A i \in 0..(H - 1) :
                  LET k == OwnerOf(arrays, id, i)
                  IN  /\ k # 0
                      /\ ArrayContent(arrays, id, i)
                            = ChildLine(arrays, cs[k],
                                        i - SumHeights(arrays, SubSeq(cs, 1, k - 1)))
            /\ \A i \in H..(H + 1) : ArrayContent(arrays, id, i) = <<>>

----------------------------------------------------------------------------
(* C22, C23, C28 *)

\* C22: a Reflect call that returns an error leaves the rows of the table
\* exactly as they were before the call.
C22_FailedReflectNoRows ==
    ret.fn = "Reflect" /\ ret.st = "err" => tabs[1].Rows = ret.before

\* C23: every row a Reflect call has appended to the table has exactly two
\* cells.
C23_TwoColumns ==
    ret.fn = "Reflect" =>
        \A r \in (Len(ret.before) + 1)..Len(tabs[1].Rows) : Len(tabs[1].Rows[r]) = 2

RECURSIVE ContainsNil(_)
\* v holds a nil pointer or a nil interface in a struct field, a slice
\* element or a map value, at any depth
ContainsNil(v) ==
    LET IsNil(x) == x.type \in {"ptr", "interface"} /\ x.nil
        Inner(x) == IsNil(x) \/ ContainsNil(x)
    IN  CASE v.type = "struct" -> \E i \in 1..Len(v.fields) : Inner(v.fields[i].v)
          [] v.type = "slice"  -> \E i \in 1..Len(v.elems) : Inner(v.elems[i])
          [] v.type = "map"    -> \E i \in 1..Len(v.entries) : Inner(v.entries[i].val)
          [] v.type \in {"ptr", "interface"} -> ~v.nil /\ ContainsNil(v.elem)
          [] OTHER -> FALSE

RECURSIVE MarshalFails(_)
\* v holds a TextMarshaler whose MarshalText fails
MarshalFails(v) ==
    CASE v.type = "TextMarshaler" -> ~v.ok
      [] v.type = "struct" -> \E i \in 1..Len(v.fields) : MarshalFails(v.fields[i].v)
      [] v.type = "slice"  -> \E i \in 1..Len(v.elems) : MarshalFails(v.elems[i])
      [] v.type = "map"    -> \E i \in 1..Len(v.entries) : MarshalFails(v.entries[i].val)
      [] v.type \in {"ptr", "interface"} -> ~v.nil /\ MarshalFails(v.elem)
      [] OTHER -> FALSE

\* C28: a Reflect call on a value that holds nil pointers or nil interfaces
\* (and no TextMarshaler that fails) returns without an error and without a
\* panic, with or without OmitEmpty.
C28_NilNeverFails ==
    ret.fn = "Reflect" /\ ContainsNil(ret.v) /\ ~MarshalFails(ret.v) => ret.st = "ok"

----------------------------------------------------------------------------
(* C21 *)

\* C21: in every interleaving of two goroutines that call Print, Width,
\* Height or Content on a table that is no longer changed, every call that
\* has returned has got what a single-threaded call gets: it has not
\* panicked and has answered from the lines of the table's rendering; and
\* the Data the table holds once a store is complete has these lines.
C21_ConcurrentReadsAgree ==
    LET single == NewLines(TabulatePrint(tabs[1], HeadersOf(tabs[1], hcols, harr)))
    IN  /\ \A x \in ThreadIds :
              threads.th[x].pc = "done" =>
                  /\ ~threads.th[x].panicked
                  /\ threads.th[x].got = single
        /\ tabs[1].asData # NilData => tabs[1].asData = single

====
